---- MODULE Spec2Model ----
(***************************************************************************)
(* Hiragana Dojo: the prefetch pipeline of a practice screen (reading,     *)
(* writing, visual), the suggestion selector and the usage tracker.        *)
(*                                                                         *)
(* A practice screen is a React function component.  Its handlers run to   *)
(* completion on the UI thread; an `await` suspends the handler, and the   *)
(* continuation runs as a microtask once the awaited promise has settled,  *)
(* before any further user event or network callback is dispatched.  A     *)
(* handler (and its continuation) sees the props and state of the render   *)
(* in which it was created: `wordStats` inside getSuggestedWords is the    *)
(* value captured by that closure.                                         *)
(*                                                                         *)
(* Characters are code points (small naturals), words and texts are        *)
(* sequences of characters.                                                *)
(***************************************************************************)
EXTENDS Naturals, Integers, Sequences, FiniteSets, TLC

VARIABLES
    mode,              \* which practice screen this instance is
    vocabulary,        \* props.vocabulary (AnalyzedVocabulary)
    wordStats,         \* App state: readingStats / writingStats / visualStats, by mode
    mountedRef,        \* useRef(false): the init effect has run
    requests,          \* every generation request issued so far, in issue order
    bufferPromiseRef,  \* useRef(null): id of the request held in the prefetch slot, 0 = null
    currentData,       \* currentData / currentBatch / currentQuiz: id of the installed response, 0 = null
    currentIndex,      \* writing: index of the challenge shown (0-based)
    isInitialLoading,
    isTransitioning,
    error,             \* "none" = null, otherwise which handler set the message
    userInput,         \* userDraft (writing) / userInput (visual)
    isRevealed,        \* writing
    validationState,   \* visual: idle / correct / incorrect; writing validationResult (idle = null)
    waiters,           \* suspended async handlers, in the order they reached their await
    installs,          \* history: ids of the responses installed as current, in order
    advances,          \* history: number of advance continuations that installed an item
    suggested,         \* result of the last stand-alone selector call
    selected,          \* history: the stand-alone selector has been called
    startStats,        \* history: the WordStats restored at startup, by mode
    updateLog,         \* history: every stats update submitted, in order
    crashed,           \* a render threw: React has unmounted the tree
    view,              \* App state: CONFIG / INPUT_WORDS / PRACTICE
    practiceMode,      \* App state: the active tab
    apiKey,            \* App state: the credential, NoKey = null
    envKey,            \* process.env.API_KEY of this build
    localStorage,      \* the browser's persisted store, by key
    knownWords,        \* App state: text of the known-words input
    learningWords,     \* App state: text of the learning-words input
    analyzedData,      \* App state: AnalyzedVocabulary, NullData = null
    visitedModes,      \* App state: the tabs whose screen has been mounted in this session
    isInitialized,     \* App state: the init effect has run
    nullStats,         \* the modes whose WordStats state holds null instead of a mapping
    screens,           \* every practice screen instance mounted since the page was loaded
    issued,            \* history: every generation request issued by those instances
    configError,       \* ConfigScreen state error: "none" = '', otherwise which check set it
    credited           \* history: how often each displayed item was submitted to updateWordStats

\* The App around a practice screen.
appVars == << view, practiceMode, apiKey, envKey, localStorage, knownWords, learningWords,
              analyzedData, visitedModes, isInitialized, nullStats, screens, issued,
              configError >>

\* History and failure variables that the handlers of a healthy screen leave alone.
background == << selected, startStats, updateLog, crashed, appVars >>

others == << background, credited >>

vars == << mode, vocabulary, wordStats, mountedRef, requests, bufferPromiseRef,
           currentData, currentIndex, isInitialLoading, isTransitioning, error,
           userInput, isRevealed, validationState, waiters, installs, advances,
           suggested, others >>

(***************************************************************************)
(* Bounds                                                                  *)
(***************************************************************************)
MaxRequests == 4      \* generation requests issued by one screen instance
MaxBatch == 2         \* challenges in a writing batch
MaxSelWords == 6      \* vocabulary size handed to the stand-alone selector
MaxSelCount == 1      \* largest usage count handed to the stand-alone selector
MaxUpdates == 3       \* stats updates submitted to the App in one run
MaxLiveRequests == 3  \* generation requests in the runs checked for progress

Modes == {"READING", "WRITING", "VISUAL"}

NoRequest == 0
NoError == "none"

(***************************************************************************)
(* Sequence helpers                                                        *)
(***************************************************************************)
Range(s) == { s[i] : i \in 1..Len(s) }

Includes(s, x) == \E i \in 1..Len(s) : s[i] = x

Min(a, b) == IF a <= b THEN a ELSE b

Max(a, b) == IF a >= b THEN a ELSE b

Slice(s, n) == SubSeq(s, 1, Min(n, Len(s)))

(***************************************************************************)
(* WordStats: Record<string, number>; a missing entry reads as 0.          *)
(***************************************************************************)
EmptyStats == [w \in {} |-> 0]

Count(stats, w) == IF w \in DOMAIN stats THEN stats[w] ELSE 0

(***************************************************************************)
(* Suggestion selector (getSuggestedWords, identical on the three screens) *)
(***************************************************************************)

\* Array.prototype.sort with sortByUsage: ascending by count; the comparator
\* answers at random for equal counts, so every ordering of the words that
\* is non-decreasing in the count is a possible result.
RECURSIVE SortedByUsage(_, _)
SortedByUsage(pool, stats) ==
    IF pool = {} THEN { <<>> }
    ELSE LET least == { w \in pool : \A v \in pool : Count(stats, w) <= Count(stats, v) }
         IN UNION { { <<w>> \o rest : rest \in SortedByUsage(pool \ {w}, stats) } : w \in least }

KnownPool(vocab) ==
    LET NotLearning(w) == ~ Includes(vocab.learningWords, w)
    IN SelectSeq(vocab.validHiraganaWords, NotLearning)

\* Variant: the known words are not limited to what the learning words left.
SelectMixNoBudget(sortedLearning, sortedKnown) ==
    LET learningCount == Min(3, Len(sortedLearning))
        selectedLearning == Slice(sortedLearning, learningCount)
        selectedKnown == Slice(sortedKnown, 5)
    IN selectedLearning \o selectedKnown

\* Variant: the known words are returned before the learning words.
SelectMixKnownFirst(sortedLearning, sortedKnown) ==
    LET learningCount == Min(3, Len(sortedLearning))
        selectedLearning == Slice(sortedLearning, learningCount)
        needed == 5 - Len(selectedLearning)
        selectedKnown == Slice(sortedKnown, Max(0, needed))
    IN selectedKnown \o selectedLearning

\* Variant: two slots are reserved for known words whatever the learning words took.
SelectMixTwoKnown(sortedLearning, sortedKnown) ==
    LET learningCount == Min(3, Len(sortedLearning))
        selectedLearning == Slice(sortedLearning, learningCount)
        needed == 2
        selectedKnown == Slice(sortedKnown, Max(0, needed))
    IN selectedLearning \o selectedKnown

SelectMix(sortedLearning, sortedKnown) ==
    LET learningCount == Min(3, Len(sortedLearning))
        selectedLearning == Slice(sortedLearning, learningCount)
        needed == 5 - Len(selectedLearning)
        selectedKnown == Slice(sortedKnown, Max(0, needed))
    IN selectedLearning \o selectedKnown

\* Variant: the pools are used in vocabulary order, without sorting by usage.
getSuggestedWordsUnsorted(vocab, stats) ==
    { SelectMix(vocab.learningWords, KnownPool(vocab)) }

\* The set of lists one call of getSuggestedWords may return.
getSuggestedWords(vocab, stats) ==
    LET learningPool == vocab.learningWords
        knownPool == KnownPool(vocab)
    IN { SelectMix(sl, sk) : sl \in SortedByUsage(Range(learningPool), stats),
                             sk \in SortedByUsage(Range(knownPool), stats) }

(***************************************************************************)
(* Usage tracker                                                           *)
(***************************************************************************)

\* String.prototype.indexOf(word, from) on 0-based positions; -1 if absent.
IndexOf(text, word, from) ==
    LET hits == { p \in from..(Len(text) - Len(word)) :
                    SubSeq(text, p + 1, p + Len(word)) = word }
    IN IF hits = {} THEN -1 ELSE CHOOSE p \in hits : \A q \in hits : p <= q

\* The while loop of countUsedWords: count++, then search again from pos + 1.
RECURSIVE CountFrom(_, _, _)
CountFrom(text, word, pos) ==
    IF pos = -1 THEN 0 ELSE 1 + CountFrom(text, word, IndexOf(text, word, pos + 1))

countUsedWords(text, vocab) ==
    LET found == { w \in Range(vocab.validHiraganaWords) :
                     CountFrom(text, w, IndexOf(text, w, 0)) > 0 }
    IN [w \in found |-> CountFrom(text, w, IndexOf(text, w, 0))]

\* Variant: the submitted count replaces the stored count.
createStatsOverwriter(prevStats, wordCounts) ==
    [w \in (DOMAIN prevStats) \cup (DOMAIN wordCounts) |->
        IF w \in DOMAIN wordCounts THEN wordCounts[w] ELSE prevStats[w]]

\* createStatsUpdater: newStats[word] = (newStats[word] || 0) + count.
createStatsUpdater(prevStats, wordCounts) ==
    [w \in (DOMAIN prevStats) \cup (DOMAIN wordCounts) |->
        Count(prevStats, w) + Count(wordCounts, w)]

\* updateWordStats as called by the screen of mode m.
updateWordStats(all, m, wordCounts) ==
    [all EXCEPT ![m] = createStatsUpdater(all[m], wordCounts)]

(***************************************************************************)
(* Answer normalisation                                                    *)
(***************************************************************************)
Space == 10
IdeographicSpace == 11
Newline == 12
WhitespaceChars == {Space, IdeographicSpace, Newline}   \* what \s and trim() match
PunctuationChars == 20..27

\* Variant: punctuation is kept.
normalizeWritingKeepPunctuation(text) ==
    LET Kept(c) == c \notin WhitespaceChars
    IN SelectSeq(text, Kept)

normalizeWriting(text) ==
    LET Kept(c) == c \notin WhitespaceChars /\ c \notin PunctuationChars
    IN SelectSeq(text, Kept)

normalizeVisual(text) ==
    LET Kept(c) == c \notin WhitespaceChars
    IN SelectSeq(text, Kept)

(***************************************************************************)
(* The vocabulary analyzer (App.handleStartPractice)                       *)
(***************************************************************************)
Latin == 30                  \* a letter outside the Hiragana block
HiraganaChars == 1..9        \* U+3040..U+309F

Trim(text) ==
    LET kept == { i \in 1..Len(text) : text[i] \notin WhitespaceChars }
    IN IF kept = {} THEN <<>>
       ELSE SubSeq(text, CHOOSE i \in kept : \A j \in kept : i <= j,
                         CHOOSE i \in kept : \A j \in kept : i >= j)

\* text.split(/[\s\n]+/): the pieces between the maximal runs of whitespace;
\* a run at either end leaves an empty piece.
RECURSIVE SplitFrom(_, _, _)
SplitFrom(text, piece, inRun) ==
    IF text = <<>> THEN << piece >>
    ELSE IF Head(text) \in WhitespaceChars
         THEN IF inRun THEN SplitFrom(Tail(text), piece, TRUE)
              ELSE << piece >> \o SplitFrom(Tail(text), <<>>, TRUE)
         ELSE SplitFrom(Tail(text), Append(piece, Head(text)), FALSE)

Split(text) == SplitFrom(text, <<>>, FALSE)

\* Array.from(new Set(items)): first occurrences, in order.
RECURSIVE Distinct(_)
Distinct(items) ==
    IF items = <<>> THEN <<>>
    ELSE LET rest == Distinct(SubSeq(items, 1, Len(items) - 1))
             last == items[Len(items)]
         IN IF Includes(rest, last) THEN rest ELSE Append(rest, last)

\* Variant: the tokens are kept as split, duplicates included.
parseWordsKeepDuplicates(text) ==
    LET NonEmpty(w) == Len(w) > 0
    IN SelectSeq(Split(Trim(text)), NonEmpty)

parseWords(text) ==
    LET NonEmpty(w) == Len(w) > 0
    IN Distinct(SelectSeq(Split(Trim(text)), NonEmpty))

RECURSIVE Concat(_)
Concat(words) == IF words = <<>> THEN <<>> ELSE Head(words) \o Concat(Tail(words))

\* Variant: every character of the words is collected, whatever its block.
collectCharsAnyBlock(words) == Distinct(Concat(words))

collectChars(words) ==
    LET InBlock(c) == c \in HiraganaChars
    IN Distinct(SelectSeq(Concat(words), InBlock))

analyze(known, learning) ==
    LET validKnown == parseWords(known)
        validLearning == parseWords(learning)
        allValidWords == Distinct(validKnown \o validLearning)
    IN [validHiraganaWords |-> allValidWords,
        learningWords |-> validLearning,
        allowedCharacters |-> collectChars(allValidWords)]

NullData == [isNull |-> TRUE]

(***************************************************************************)
(* The session of the pipeline model                                       *)
(***************************************************************************)
W1 == <<1>>
W2 == <<2>>
W3 == <<3>>

PracticeVocabulary ==
    [validHiraganaWords |-> <<W1, W2, W3>>, learningWords |-> <<W3>>]

\* What the generator may answer.
ReadingTexts == { <<1, 4>>, <<4>> }
ChallengeText == <<1, 4>>
Batches == { [i \in 1..n |-> [hiragana |-> ChallengeText]] : n \in 0..MaxBatch }
QuizTargets == { W1, W3 }

\* missing: the parsed response lacks the field the screen reads (hiragana,
\* challenges, targetWord).
NoPayload == [hiragana |-> <<>>, challenges |-> <<>>, targetWord |-> <<>>, missing |-> FALSE]

Payloads(m) ==
    CASE m = "READING" -> { [NoPayload EXCEPT !.hiragana = t] : t \in ReadingTexts }
      [] m = "WRITING" -> { [NoPayload EXCEPT !.challenges = b] : b \in Batches }
      [] m = "VISUAL"  -> { [NoPayload EXCEPT !.targetWord = w] : w \in QuizTargets }

\* What the user may type.
Inputs(m) ==
    CASE m = "WRITING" -> { <<>>, <<1, Space, 4, 20>> }
      [] m = "VISUAL"  -> { <<>>, <<1, Space>>, <<3>> }
      [] OTHER -> { <<>> }

(***************************************************************************)
(* Requests and suspended handlers                                         *)
(***************************************************************************)

\* generateSentence / generateWritingBatch / generateVisualQuizItem called
\* with the suggestions the closure computed.  statsRead is the WordStats
\* the selector read; statsAtIssue is the mode's WordStats with every update
\* submitted so far.
NewRequest(origin, sugg, closureStats, liveStats) ==
    [status |-> "pending", origin |-> origin, suggestions |-> sugg,
     statsRead |-> closureStats, statsAtIssue |-> liveStats, payload |-> NoPayload,
     step |-> "text", cause |-> "none"]

Settled(r) == requests[r].status # "pending"

\* generateVisualQuizItem makes two calls, text then image; generateSentence
\* and generateWritingBatch make the text call only.
LastStep == IF mode = "VISUAL" THEN "image" ELSE "text"

\* A step fails when its call throws or its response is unusable: a text
\* response that is empty or unparseable, an image response without inline
\* data.  In visual, a parsed text response may also lack the imagePrompt.
FailureCauses(step) ==
    IF step = "image" THEN {"image step failed"}
    ELSE IF mode = "VISUAL" THEN {"text step failed", "no image description"}
    ELSE {"text step failed"}

Runnable(i) == i \in 1..Len(waiters) /\ Settled(waiters[i].req)

\* The continuation that runs next: microtasks run in the order of their awaits.
NextRunnable == CHOOSE i \in 1..Len(waiters) : Runnable(i) /\ \A j \in 1..(i - 1) : ~ Runnable(j)

MicrotaskPending == \E i \in 1..Len(waiters) : Runnable(i)

RemoveAt(s, i) == SubSeq(s, 1, i - 1) \o SubSeq(s, i + 1, Len(s))

\* Room for the requests the suspended handlers and one more advance will issue.
RoomFor(n) == Len(requests) + Len(waiters) + n <= MaxRequests

(***************************************************************************)
(* What is rendered, hence which handlers the user can reach               *)
(***************************************************************************)
Live == wordStats[mode]

CurrentPayload == requests[currentData].payload

\* PracticeScreen: the main button is disabled while loading or transitioning;
\* the retry button is rendered in the error branch.
ReadingNextEnabled ==
    \/ ~ (isTransitioning \/ isInitialLoading)
    \/ (~ isInitialLoading /\ error # NoError)

\* WritingPracticeScreen returns the loader or the error panel first; the
\* card is rendered only when the current challenge exists.
WritingCardShown ==
    /\ ~ isInitialLoading
    /\ error = NoError
    /\ currentData # NoRequest
    /\ currentIndex < Len(CurrentPayload.challenges)

\* VisualQuizScreen: the interaction area needs a quiz and no initial loading.
VisualAreaShown == ~ isInitialLoading /\ currentData # NoRequest

\* A disabled input receives no key events.
VisualInputDisabled == validationState = "correct"

(***************************************************************************)
(* The App: credential, persisted store, serialisation of WordStats        *)
(***************************************************************************)
Views == {"CONFIG", "INPUT_WORDS", "PRACTICE"}

\* Credentials are texts; null, undefined and '' are all falsy and the code
\* never tells them apart.
NoKey == <<>>
AIza == <<41, 42, 43, 44>>
EnvKey == <<46>>
StoredKey == AIza \o <<47>>

StartsWith(text, prefix) ==
    Len(text) >= Len(prefix) /\ SubSeq(text, 1, Len(prefix)) = prefix

\* localStorage: getItem gives null for a key that was never set.
NoItem == [present |-> FALSE]
Item(v) == [present |-> TRUE, value |-> v]

ApiKeyItem == "hiragana_dojo_api_key"
KnownItem == "hiragana_practice_known_words"
LearningItem == "hiragana_practice_learning_words"
LegacyItem == "hiragana_practice_words"
StatsItem(m) ==
    CASE m = "READING" -> "hiragana_practice_reading_stats"
      [] m = "WRITING" -> "hiragana_practice_writing_stats"
      [] m = "VISUAL" -> "hiragana_practice_visual_stats"
StorageKeys == {ApiKeyItem, KnownItem, LearningItem, LegacyItem} \cup { StatsItem(m) : m \in Modes }

\* A JSON text is the list of its members (an object), the literal null, or
\* something JSON.parse rejects.
JsonNull == [json |-> "null"]
JsonInvalid == [json |-> "invalid"]

RECURSIVE Members(_, _)
Members(stats, keys) ==
    IF keys = {} THEN <<>>
    ELSE LET k == CHOOSE k \in keys : TRUE
         IN << [key |-> k, value |-> stats[k]] >> \o Members(stats, keys \ {k})

stringify(stats) == [json |-> "object", members |-> Members(stats, DOMAIN stats)]

\* JSON.parse: thrown = TRUE for a SyntaxError, otherwise the value.
parse(text) ==
    CASE text.json = "invalid" -> [thrown |-> TRUE, isNull |-> FALSE, value |-> EmptyStats]
      [] text.json = "null" -> [thrown |-> FALSE, isNull |-> TRUE, value |-> EmptyStats]
      [] text.json = "object" ->
            LET ms == Range(text.members)
            IN [thrown |-> FALSE, isNull |-> FALSE,
                value |-> [w \in { e.key : e \in ms } |-> (CHOOSE e \in ms : e.key = w).value]]

RECURSIVE Join(_)
Join(words) ==
    IF words = <<>> THEN <<>>
    ELSE IF Len(words) = 1 THEN words[1]
    ELSE Head(words) \o << Space >> \o Join(Tail(words))

\* JSON.stringify of the WordStats state of mode m.
StatsText(stats, nulls, m) == IF m \in nulls THEN JsonNull ELSE stringify(stats[m])

\* What the save effects have written once every one of them has run.
Saved(store, known, learning, stats, nulls) ==
    [k \in StorageKeys |->
        CASE k = KnownItem -> Item(known)
          [] k = LearningItem -> Item(learning)
          [] \E m \in Modes : k = StatsItem(m) ->
                Item(StatsText(stats, nulls, CHOOSE m \in Modes : k = StatsItem(m)))
          [] OTHER -> store[k]]

\* The App as it stands around a practice screen that is being mounted: the
\* words of the vocabulary were typed into the two inputs and analyzed.
AppInSession ==
    /\ view = "PRACTICE"
    /\ practiceMode = mode
    /\ apiKey = StoredKey
    /\ envKey = NoKey
    /\ knownWords = Join(vocabulary.validHiraganaWords)
    /\ learningWords = Join(vocabulary.learningWords)
    /\ analyzedData = analyze(knownWords, learningWords)
    /\ visitedModes = {"READING", mode}
    /\ isInitialized = TRUE
    /\ nullStats = {}
    /\ localStorage = Saved([k \in StorageKeys |-> IF k = ApiKeyItem THEN Item(StoredKey) ELSE NoItem],
                            knownWords, learningWords, wordStats, nullStats)
    /\ screens = <<>>
    /\ issued = {}
    /\ configError = NoError

(***************************************************************************)
(* Initial state: the component has been constructed, no effect has run    *)
(***************************************************************************)
InitScreen ==
    /\ mountedRef = FALSE
    /\ requests = <<>>
    /\ bufferPromiseRef = NoRequest
    /\ currentData = NoRequest
    /\ currentIndex = 0
    /\ isInitialLoading = TRUE
    /\ isTransitioning = FALSE
    /\ error = NoError
    /\ userInput = <<>>
    /\ isRevealed = FALSE
    /\ validationState = "idle"
    /\ waiters = <<>>
    /\ installs = <<>>
    /\ advances = 0
    /\ suggested = <<>>
    /\ selected = FALSE
    /\ startStats = wordStats
    /\ updateLog = <<>>
    /\ crashed = FALSE
    /\ credited = <<>>

Init ==
    /\ mode \in Modes
    /\ vocabulary = PracticeVocabulary
    /\ wordStats = [m \in Modes |-> EmptyStats]
    /\ InitScreen
    /\ AppInSession

(***************************************************************************)
(* Mount: the init effect up to its await                                  *)
(***************************************************************************)
\* Variant: the prefetch is issued together with the initial request.
MountWithPrefetch ==
    /\ ~ mountedRef
    /\ mountedRef' = TRUE
    /\ isInitialLoading' = TRUE
    /\ \E sugg \in getSuggestedWords(vocabulary, Live) :
          requests' = requests \o << NewRequest("initial", sugg, Live, Live),
                                    NewRequest("prefetch", sugg, Live, Live) >>
    /\ bufferPromiseRef' = Len(requests) + 2
    /\ waiters' = Append(waiters, [kind |-> "init", req |-> Len(requests) + 1, closure |-> Live])
    /\ UNCHANGED << mode, vocabulary, wordStats, currentData, currentIndex,
                    isTransitioning, error, userInput, isRevealed, validationState,
                    installs, advances, suggested, others >>

Mount ==
    /\ ~ mountedRef
    /\ mountedRef' = TRUE
    /\ isInitialLoading' = TRUE
    /\ \E sugg \in getSuggestedWords(vocabulary, Live) :
          requests' = Append(requests, NewRequest("initial", sugg, Live, Live))
    /\ waiters' = Append(waiters, [kind |-> "init", req |-> Len(requests) + 1, closure |-> Live])
    /\ UNCHANGED << mode, vocabulary, wordStats, bufferPromiseRef, currentData, currentIndex,
                    isTransitioning, error, userInput, isRevealed, validationState,
                    installs, advances, suggested, others >>

(***************************************************************************)
(* The generator settles a request                                         *)
(***************************************************************************)
\* Variant: the visual item is returned as soon as the text step has answered.
FulfilAfterText(r) ==
    /\ ~ MicrotaskPending
    /\ r \in 1..Len(requests)
    /\ requests[r].status = "pending"
    /\ \E p \in Payloads(mode) :
          requests' = [requests EXCEPT ![r].status = "fulfilled", ![r].payload = p]
    /\ UNCHANGED << mode, vocabulary, wordStats, mountedRef, bufferPromiseRef, currentData,
                    currentIndex, isInitialLoading, isTransitioning, error, userInput,
                    isRevealed, validationState, waiters, installs, advances, suggested, others >>

\* The last generateContent call of the request answers with a usable
\* response: the only call in reading and writing, the image call in visual.
Fulfil(r) ==
    /\ ~ MicrotaskPending
    /\ r \in 1..Len(requests)
    /\ requests[r].status = "pending"
    /\ requests[r].step = LastStep
    /\ \E p \in Payloads(mode) :
          requests' = [requests EXCEPT ![r].status = "fulfilled", ![r].payload = p]
    /\ UNCHANGED << mode, vocabulary, wordStats, mountedRef, bufferPromiseRef, currentData,
                    currentIndex, isInitialLoading, isTransitioning, error, userInput,
                    isRevealed, validationState, waiters, installs, advances, suggested, others >>

\* Variant: a rejected prefetch is reported at once and dropped from the slot.
RejectAndReport(r) ==
    /\ ~ MicrotaskPending
    /\ r \in 1..Len(requests)
    /\ requests[r].status = "pending"
    /\ \E c \in FailureCauses(requests[r].step) :
          requests' = [requests EXCEPT ![r].status = "rejected", ![r].cause = c]
    /\ error' = IF r = bufferPromiseRef THEN "next" ELSE error
    /\ bufferPromiseRef' = IF r = bufferPromiseRef THEN NoRequest ELSE bufferPromiseRef
    /\ UNCHANGED << mode, vocabulary, wordStats, mountedRef, currentData,
                    currentIndex, isInitialLoading, isTransitioning, userInput,
                    isRevealed, validationState, waiters, installs, advances, suggested, others >>

\* The call of the current step throws or its response is unusable: the
\* async function throws, which rejects the request's promise.
Reject(r) ==
    /\ ~ MicrotaskPending
    /\ r \in 1..Len(requests)
    /\ requests[r].status = "pending"
    /\ \E c \in FailureCauses(requests[r].step) :
          requests' = [requests EXCEPT ![r].status = "rejected", ![r].cause = c]
    /\ UNCHANGED << mode, vocabulary, wordStats, mountedRef, bufferPromiseRef, currentData,
                    currentIndex, isInitialLoading, isTransitioning, error, userInput,
                    isRevealed, validationState, waiters, installs, advances, suggested, others >>

\* Visual: the text step answered with an imagePrompt; the image call is made.
TextStepDone(r) ==
    /\ mode = "VISUAL"
    /\ ~ MicrotaskPending
    /\ r \in 1..Len(requests)
    /\ requests[r].status = "pending"
    /\ requests[r].step = "text"
    /\ requests' = [requests EXCEPT ![r].step = "image"]
    /\ UNCHANGED << mode, vocabulary, wordStats, mountedRef, bufferPromiseRef, currentData,
                    currentIndex, isInitialLoading, isTransitioning, error, userInput,
                    isRevealed, validationState, waiters, installs, advances, suggested, others >>

(***************************************************************************)
(* Continuations                                                           *)
(***************************************************************************)

\* processNewSentence reads data.hiragana (countUsedWords calls text.indexOf):
\* it throws when the field is missing.  The writing and visual continuations
\* only store the response.
Processable(r) == mode = "READING" => ~ requests[r].payload.missing

\* The item shown: a passage, a quiz, or the challenge of a batch.
Shown(r, i) == [item |-> r, index |-> IF mode = "WRITING" THEN i ELSE 0]

\* One more call of updateWordStats on behalf of the item.
Credit(key) ==
    [k \in DOMAIN credited \cup {key} |-> IF k = key THEN Count(credited, key) + 1 ELSE credited[k]]

\* Variant: the item is installed but no prefetch is queued.
InstallWithoutQueue(w) ==
    LET r == w.req
        newStats == IF mode = "READING"
                    THEN updateWordStats(wordStats, mode,
                                         countUsedWords(requests[r].payload.hiragana, vocabulary))
                    ELSE wordStats
    IN /\ currentData' = r
       /\ installs' = Append(installs, r)
       /\ wordStats' = newStats
       /\ credited' = IF mode = "READING" THEN Credit(Shown(r, 0)) ELSE credited
       /\ currentIndex' = IF mode = "WRITING" THEN 0 ELSE currentIndex
       /\ UNCHANGED << requests, bufferPromiseRef >>

\* processNewSentence (reading) / setCurrentBatch, setCurrentIndex(0) (writing)
\* / setCurrentQuiz (visual), followed by queueNext...() of the same closure.
InstallAndQueue(w) ==
    LET r == w.req
        newStats == IF mode = "READING"
                    THEN updateWordStats(wordStats, mode,
                                         countUsedWords(requests[r].payload.hiragana, vocabulary))
                    ELSE wordStats
    IN /\ currentData' = r
       /\ installs' = Append(installs, r)
       /\ wordStats' = newStats
       /\ credited' = IF mode = "READING" THEN Credit(Shown(r, 0)) ELSE credited
       /\ currentIndex' = IF mode = "WRITING" THEN 0 ELSE currentIndex
       /\ \E sugg \in getSuggestedWords(vocabulary, w.closure) :
             requests' = Append(requests, NewRequest("prefetch", sugg, w.closure, newStats[mode]))
       /\ bufferPromiseRef' = Len(requests) + 1

ResumeInitOk ==
    /\ MicrotaskPending
    /\ LET i == NextRunnable
           w == waiters[i]
       IN /\ w.kind = "init"
          /\ requests[w.req].status = "fulfilled"
          /\ Processable(w.req)
          /\ InstallAndQueue(w)
          /\ isInitialLoading' = FALSE
          /\ waiters' = RemoveAt(waiters, i)
    /\ UNCHANGED << mode, vocabulary, mountedRef, isTransitioning, error, userInput,
                    isRevealed, validationState, advances, suggested, background >>

\* Variant: the catch branch forgets setIsInitialLoading(false).
ResumeInitFailStillLoading ==
    /\ MicrotaskPending
    /\ LET i == NextRunnable
           w == waiters[i]
       IN /\ w.kind = "init"
          /\ requests[w.req].status = "rejected"
          /\ error' = "init"
          /\ waiters' = RemoveAt(waiters, i)
    /\ UNCHANGED << mode, vocabulary, wordStats, mountedRef, requests, bufferPromiseRef,
                    currentData, currentIndex, isInitialLoading, isTransitioning, userInput,
                    isRevealed, validationState, installs, advances, suggested, others >>

ResumeInitFail ==
    /\ MicrotaskPending
    /\ LET i == NextRunnable
           w == waiters[i]
       IN /\ w.kind = "init"
          /\ requests[w.req].status = "rejected"
          /\ error' = "init"
          /\ isInitialLoading' = FALSE
          /\ waiters' = RemoveAt(waiters, i)
    /\ UNCHANGED << mode, vocabulary, wordStats, mountedRef, requests, bufferPromiseRef,
                    currentData, currentIndex, isTransitioning, userInput, isRevealed,
                    validationState, installs, advances, suggested, others >>

\* Variant: the success path of an advance forgets setIsTransitioning(false).
ResumeNextOkStillTransitioning ==
    /\ MicrotaskPending
    /\ LET i == NextRunnable
           w == waiters[i]
       IN /\ w.kind = "next"
          /\ requests[w.req].status = "fulfilled"
          /\ Processable(w.req)
          /\ InstallAndQueue(w)
          /\ advances' = advances + 1
          /\ waiters' = RemoveAt(waiters, i)
    /\ UNCHANGED << mode, vocabulary, mountedRef, isInitialLoading, isTransitioning, error,
                    userInput, isRevealed, validationState, suggested, background >>

ResumeNextOk ==
    /\ MicrotaskPending
    /\ LET i == NextRunnable
           w == waiters[i]
       IN /\ w.kind = "next"
          /\ requests[w.req].status = "fulfilled"
          /\ Processable(w.req)
          /\ InstallAndQueue(w)
          /\ isTransitioning' = FALSE
          /\ advances' = advances + 1
          /\ waiters' = RemoveAt(waiters, i)
    /\ UNCHANGED << mode, vocabulary, mountedRef, isInitialLoading, error, userInput,
                    isRevealed, validationState, suggested, background >>

\* Variant: the catch branch leaves the failed request in the slot.
ResumeNextFailKeepSlot ==
    /\ MicrotaskPending
    /\ LET i == NextRunnable
           w == waiters[i]
       IN /\ w.kind = "next"
          /\ requests[w.req].status = "rejected"
          /\ error' = "next"
          /\ isTransitioning' = FALSE
          /\ waiters' = RemoveAt(waiters, i)
    /\ UNCHANGED << mode, vocabulary, wordStats, mountedRef, requests, bufferPromiseRef,
                    currentData, currentIndex, isInitialLoading, userInput, isRevealed,
                    validationState, installs, advances, suggested, others >>

ResumeNextFail ==
    /\ MicrotaskPending
    /\ LET i == NextRunnable
           w == waiters[i]
       IN /\ w.kind = "next"
          /\ requests[w.req].status = "rejected"
          /\ error' = "next"
          /\ bufferPromiseRef' = NoRequest
          /\ isTransitioning' = FALSE
          /\ waiters' = RemoveAt(waiters, i)
    /\ UNCHANGED << mode, vocabulary, wordStats, mountedRef, requests, currentData,
                    currentIndex, isInitialLoading, userInput, isRevealed, validationState,
                    installs, advances, suggested, others >>

(***************************************************************************)
(* Advance: the handler up to its await                                    *)
(***************************************************************************)

\* Variant: the advance queues a request whether or not the slot is empty.
QueueAlwaysAndAwait ==
    /\ \E sugg \in getSuggestedWords(vocabulary, Live) :
          requests' = Append(requests, NewRequest("advance", sugg, Live, Live))
    /\ bufferPromiseRef' = Len(requests) + 1
    /\ waiters' = Append(waiters, [kind |-> "next", req |-> bufferPromiseRef', closure |-> Live])

\* if (!bufferPromiseRef.current) queueNext...(); await bufferPromiseRef.current
QueueIfEmptyAndAwait ==
    /\ IF bufferPromiseRef = NoRequest
       THEN /\ \E sugg \in getSuggestedWords(vocabulary, Live) :
                  requests' = Append(requests, NewRequest("advance", sugg, Live, Live))
            /\ bufferPromiseRef' = Len(requests) + 1
       ELSE UNCHANGED << requests, bufferPromiseRef >>
    /\ waiters' = Append(waiters, [kind |-> "next", req |-> bufferPromiseRef', closure |-> Live])

handleNextSentence ==
    /\ mode = "READING"
    /\ ~ MicrotaskPending
    /\ mountedRef
    /\ ReadingNextEnabled
    /\ RoomFor(IF bufferPromiseRef = NoRequest THEN 2 ELSE 1)
    /\ error' = NoError
    /\ isTransitioning' = TRUE
    /\ QueueIfEmptyAndAwait
    /\ UNCHANGED << mode, vocabulary, wordStats, mountedRef, currentData, currentIndex,
                    isInitialLoading, userInput, isRevealed, validationState, installs,
                    advances, suggested, others >>

\* WritingPracticeScreen.handleNext, from the button (disabled while
\* transitioning) or from Enter in the textarea when the answer is revealed.
WritingHandleNext(via) ==
    /\ mode = "WRITING"
    /\ ~ MicrotaskPending
    /\ WritingCardShown
    /\ isRevealed
    /\ via = "click" => ~ isTransitioning
    /\ currentData # NoRequest
    /\ userInput' = <<>>
    /\ isRevealed' = FALSE
    /\ validationState' = "idle"
    /\ IF currentIndex < Len(CurrentPayload.challenges) - 1
       THEN /\ currentIndex' = currentIndex + 1
            /\ UNCHANGED << requests, bufferPromiseRef, waiters, isTransitioning >>
       ELSE /\ RoomFor(IF bufferPromiseRef = NoRequest THEN 2 ELSE 1)
            /\ isTransitioning' = TRUE
            /\ QueueIfEmptyAndAwait
            /\ UNCHANGED currentIndex
    /\ UNCHANGED << mode, vocabulary, wordStats, mountedRef, currentData, isInitialLoading,
                    error, installs, advances, suggested, others >>

\* VisualQuizScreen.handleNext, from the button (rendered when the answer was
\* correct, disabled while transitioning) or from Enter in the input.
VisualHandleNext(via) ==
    /\ mode = "VISUAL"
    /\ ~ MicrotaskPending
    /\ VisualAreaShown
    /\ validationState = "correct"
    /\ via = "click" => ~ isTransitioning
    /\ via = "enter" => ~ VisualInputDisabled
    /\ RoomFor(IF bufferPromiseRef = NoRequest THEN 2 ELSE 1)
    /\ validationState' = "idle"
    /\ userInput' = <<>>
    /\ isTransitioning' = TRUE
    /\ QueueIfEmptyAndAwait
    /\ UNCHANGED << mode, vocabulary, wordStats, mountedRef, currentData, currentIndex,
                    isInitialLoading, error, isRevealed, installs, advances, suggested, others >>

(***************************************************************************)
(* Interaction with the displayed item                                     *)
(***************************************************************************)
\* Variant: typing is held back while any generation request is pending.
TypeInputWhenSettled(t) ==
    /\ ~ MicrotaskPending
    /\ t \in Inputs(mode)
    /\ t # userInput
    /\ \A r \in 1..Len(requests) : requests[r].status # "pending"
    /\ \/ mode = "WRITING" /\ WritingCardShown /\ ~ isRevealed
       \/ mode = "VISUAL" /\ VisualAreaShown /\ ~ VisualInputDisabled
    /\ userInput' = t
    /\ UNCHANGED << mode, vocabulary, wordStats, mountedRef, requests, bufferPromiseRef,
                    currentData, currentIndex, isInitialLoading, isTransitioning, error,
                    isRevealed, validationState, waiters, installs, advances, suggested, others >>

TypeInput(t) ==
    /\ ~ MicrotaskPending
    /\ t \in Inputs(mode)
    /\ t # userInput
    /\ \/ mode = "WRITING" /\ WritingCardShown /\ ~ isRevealed
       \/ mode = "VISUAL" /\ VisualAreaShown /\ ~ VisualInputDisabled
    /\ userInput' = t
    /\ UNCHANGED << mode, vocabulary, wordStats, mountedRef, requests, bufferPromiseRef,
                    currentData, currentIndex, isInitialLoading, isTransitioning, error,
                    isRevealed, validationState, waiters, installs, advances, suggested, others >>

\* Variant: the expected answer is revealed only when the draft was correct.
handleRevealIfCorrect ==
    /\ mode = "WRITING"
    /\ ~ MicrotaskPending
    /\ WritingCardShown
    /\ ~ isRevealed
    /\ LET currentChallenge == CurrentPayload.challenges[currentIndex + 1]
           isCorrect == normalizeWriting(userInput) = normalizeWriting(currentChallenge.hiragana)
       IN /\ validationState' = IF isCorrect THEN "correct" ELSE "incorrect"
          /\ isRevealed' = isCorrect
          /\ wordStats' = updateWordStats(wordStats, mode,
                                          countUsedWords(currentChallenge.hiragana, vocabulary))
          /\ credited' = Credit(Shown(currentData, currentIndex))
    /\ UNCHANGED << mode, vocabulary, mountedRef, requests, bufferPromiseRef, currentData,
                    currentIndex, isInitialLoading, isTransitioning, error, userInput,
                    waiters, installs, advances, suggested, background >>

\* WritingPracticeScreen.handleReveal, from the button or from Enter.
handleReveal ==
    /\ mode = "WRITING"
    /\ ~ MicrotaskPending
    /\ WritingCardShown
    /\ ~ isRevealed
    /\ LET currentChallenge == CurrentPayload.challenges[currentIndex + 1]
           isCorrect == normalizeWriting(userInput) = normalizeWriting(currentChallenge.hiragana)
       IN /\ validationState' = IF isCorrect THEN "correct" ELSE "incorrect"
          /\ isRevealed' = TRUE
          /\ wordStats' = updateWordStats(wordStats, mode,
                                          countUsedWords(currentChallenge.hiragana, vocabulary))
          /\ credited' = Credit(Shown(currentData, currentIndex))
    /\ UNCHANGED << mode, vocabulary, mountedRef, requests, bufferPromiseRef, currentData,
                    currentIndex, isInitialLoading, isTransitioning, error, userInput,
                    waiters, installs, advances, suggested, background >>

\* VisualQuizScreen.handleSubmit, from the button (disabled on empty input,
\* rendered unless the answer was correct) or from Enter while idle.
\* Variant: the target word is rewarded whether or not the answer is correct.
handleSubmitAlwaysReward(via) ==
    /\ mode = "VISUAL"
    /\ ~ MicrotaskPending
    /\ VisualAreaShown
    /\ via = "click" => validationState \in {"idle", "incorrect"} /\ Len(userInput) # 0
    /\ via = "enter" => validationState = "idle" /\ ~ VisualInputDisabled
    /\ currentData # NoRequest
    /\ ~ CurrentPayload.missing
    /\ LET isCorrect == normalizeVisual(userInput) = normalizeVisual(CurrentPayload.targetWord)
       IN /\ validationState' = IF isCorrect THEN "correct" ELSE "incorrect"
          /\ wordStats' = updateWordStats(wordStats, mode,
                                          [w \in {CurrentPayload.targetWord} |-> 3])
          /\ credited' = Credit(Shown(currentData, 0))
    /\ UNCHANGED << mode, vocabulary, mountedRef, requests, bufferPromiseRef, currentData,
                    currentIndex, isInitialLoading, isTransitioning, error, userInput,
                    isRevealed, waiters, installs, advances, suggested, background >>

handleSubmit(via) ==
    /\ mode = "VISUAL"
    /\ ~ MicrotaskPending
    /\ VisualAreaShown
    /\ via = "click" => validationState \in {"idle", "incorrect"} /\ Len(userInput) # 0
    /\ via = "enter" => validationState = "idle" /\ ~ VisualInputDisabled
    /\ currentData # NoRequest
    /\ ~ CurrentPayload.missing
    /\ LET isCorrect == normalizeVisual(userInput) = normalizeVisual(CurrentPayload.targetWord)
       IN /\ validationState' = IF isCorrect THEN "correct" ELSE "incorrect"
          /\ wordStats' = IF isCorrect
                          THEN updateWordStats(wordStats, mode,
                                               [w \in {CurrentPayload.targetWord} |-> 3])
                          ELSE wordStats
          /\ credited' = IF isCorrect THEN Credit(Shown(currentData, 0)) ELSE credited
    /\ UNCHANGED << mode, vocabulary, mountedRef, requests, bufferPromiseRef, currentData,
                    currentIndex, isInitialLoading, isTransitioning, error, userInput,
                    isRevealed, waiters, installs, advances, suggested, background >>

Vias == {"click", "enter"}

Next ==
    \/ Mount
    \/ \E r \in 1..MaxRequests : Fulfil(r)
    \/ \E r \in 1..MaxRequests : Reject(r)
    \/ \E r \in 1..MaxRequests : TextStepDone(r)
    \/ ResumeInitOk
    \/ ResumeInitFail
    \/ ResumeNextOk
    \/ ResumeNextFail
    \/ handleNextSentence
    \/ \E via \in Vias : WritingHandleNext(via)
    \/ \E via \in Vias : VisualHandleNext(via)
    \/ \E t \in Inputs(mode) : TypeInput(t)
    \/ handleReveal
    \/ \E via \in Vias : handleSubmit(via)

Spec == Init /\ [][Next]_vars

TypeOK ==
    /\ mode \in Modes
    /\ bufferPromiseRef \in 0..Len(requests)
    /\ currentData \in 0..Len(requests)
    /\ Len(requests) <= MaxRequests

(***************************************************************************)
(* The selector on its own: vocabularies with up to MaxSelWords words and  *)
(* usage counts up to MaxSelCount, one selector call per step.             *)
(***************************************************************************)
SelWord(i) == <<i>>

\* handleStartPractice builds validHiraganaWords as the known words followed
\* by the learning words not already present.
SelVocabulary(nLearning, nKnown) ==
    [validHiraganaWords |-> [i \in 1..(nKnown + nLearning) |->
                                IF i <= nKnown THEN SelWord(nLearning + i)
                                ELSE SelWord(i - nKnown)],
     learningWords |-> [i \in 1..nLearning |-> SelWord(i)]]

InitSel ==
    /\ mode = "READING"
    /\ \E nLearning \in 0..MaxSelWords : \E nKnown \in 0..(MaxSelWords - nLearning) :
          vocabulary = SelVocabulary(nLearning, nKnown)
    /\ \E counts \in [Range(vocabulary.validHiraganaWords) -> 0..MaxSelCount] :
          wordStats = [m \in Modes |-> IF m = mode THEN counts ELSE EmptyStats]
    /\ InitScreen
    /\ AppInSession

\* The selector is stateless: a second call from the same vocabulary and
\* WordStats has the same possible results, so one call per run is explored.
SelectWords ==
    /\ ~ selected
    /\ selected' = TRUE
    /\ suggested' \in getSuggestedWords(vocabulary, Live)
    /\ UNCHANGED << mode, vocabulary, wordStats, mountedRef, requests, bufferPromiseRef,
                    currentData, currentIndex, isInitialLoading, isTransitioning, error,
                    userInput, isRevealed, validationState, waiters, installs, advances,
                    startStats, updateLog, crashed, appVars, credited >>

NextSel == SelectWords

SpecSel == InitSel /\ [][NextSel]_vars

(***************************************************************************)
(* Properties of the prefetch pipeline                                     *)
(***************************************************************************)
Ids == 1..Len(requests)

Unsettled == { r \in Ids : requests[r].status = "pending" }

Rejected == { r \in Ids : requests[r].status = "rejected" }

NoFailures == Rejected = {}

PrefetchIssued == { r \in Ids : requests[r].origin = "prefetch" }

FirstLoadSucceeded == Len(requests) >= 1 /\ Includes(installs, 1)

\* The screen shows an item and neither loads, transitions nor shows an error.
Ready ==
    /\ ~ isInitialLoading
    /\ ~ isTransitioning
    /\ error = NoError
    /\ currentData # NoRequest

\* A step in which a handler reaches `await bufferPromiseRef.current`.
AdvanceAwaits ==
    /\ Len(waiters') = Len(waiters) + 1
    /\ waiters'[Len(waiters')].kind = "next"

\* A step in which the continuation of an advance runs.
AdvanceResumes(outcome) ==
    /\ MicrotaskPending
    /\ Len(waiters') = Len(waiters) - 1
    /\ waiters[NextRunnable].kind = "next"
    /\ requests[waiters[NextRunnable].req].status = outcome

\* A step in which the continuation of the initial load runs.
InitResumes(outcome) ==
    /\ MicrotaskPending
    /\ Len(waiters') = Len(waiters) - 1
    /\ waiters[NextRunnable].kind = "init"
    /\ requests[waiters[NextRunnable].req].status = outcome

IssuedInStep == Len(requests') - Len(requests)

\* C1: on every screen at most one issued prefetch request (any request other
\* than the initial one) is unsettled at any time.
C1_AtMostOnePrefetchInFlight ==
    Cardinality({ r \in Unsettled : requests[r].origin # "initial" }) <= 1

\* C2: responses are installed in the order their requests were issued, none
\* is installed twice, and no fulfilled response is skipped in favour of a
\* later-issued one.
C2_InstalledInIssueOrder ==
    /\ \A i \in 1..Len(installs) : \A j \in 1..Len(installs) :
          i < j => installs[i] < installs[j]
    /\ \A r \in Ids :
          (requests[r].status = "fulfilled" /\ \E i \in 1..Len(installs) : r < installs[i])
             => Includes(installs, r)

\* C3 as stated: without failures, once the first load has succeeded one
\* prefetch has been issued and after N successful advances exactly N + 1
\* generation requests have been issued in total.
C3_TotalIsAdvancesPlusOne ==
    (NoFailures /\ FirstLoadSucceeded) =>
        /\ advances = 0 => Cardinality(PrefetchIssued) = 1
        /\ Len(requests) = advances + 1

\* C3 amended: without failures, once the first load has succeeded one
\* prefetch has been issued, and after N successful advances exactly N + 2
\* generation requests have been issued in total: the initial one, the
\* prefetch that follows the first load and one prefetch per advance.
C3_TotalIsAdvancesPlusTwo ==
    (NoFailures /\ FirstLoadSucceeded) =>
        /\ advances = 0 => Cardinality(PrefetchIssued) = 1
        /\ Len(requests) = advances + 2
        /\ Cardinality(PrefetchIssued) = advances + 1

C3_Witness ==
    /\ NoFailures
    /\ FirstLoadSucceeded
    /\ advances = 2
    /\ Len(requests) = 4

\* What C4 requires of a single step.
C4_Step ==
    /\ AdvanceAwaits =>
          IF bufferPromiseRef = NoRequest
          THEN /\ IssuedInStep = 1
               /\ requests'[Len(requests')].origin = "advance"
               /\ waiters'[Len(waiters')].req = Len(requests')
          ELSE /\ IssuedInStep = 0
               /\ waiters'[Len(waiters')].req = bufferPromiseRef
    /\ (\E i \in 1..Len(waiters) : waiters[i].kind = "next" /\ ~ Settled(waiters[i].req))
          => IssuedInStep = 0
    /\ AdvanceResumes("fulfilled") =>
          /\ currentData' = waiters[NextRunnable].req
          /\ IssuedInStep = 1
          /\ requests'[Len(requests')].origin = "prefetch"
          /\ bufferPromiseRef' = Len(requests')
    /\ Ready' => bufferPromiseRef' # NoRequest

\* C4: an advance issues a request before awaiting exactly when the slot is
\* empty and otherwise awaits the request in the slot; nothing is issued
\* while an advance awaits an unsettled request; a successful await installs
\* the result and issues exactly one background prefetch into the slot; a
\* Ready screen always has a non-empty slot.
C4_AdvanceUsesSlot == [][C4_Step]_vars

C4_Witness ==
    /\ Ready
    /\ advances >= 1
    /\ \E r \in Ids : requests[r].origin = "advance"

\* What C5 requires of a single step.
C5_Step ==
    /\ (~ mountedRef /\ mountedRef') =>
          /\ IssuedInStep = 1
          /\ Len(requests') = 1
          /\ isInitialLoading'
    /\ (isInitialLoading' /\ mountedRef') =>
          /\ Len(requests') = 1
          /\ requests'[1].origin = "initial"
          /\ currentData' = NoRequest
          /\ bufferPromiseRef' = NoRequest
    /\ (isInitialLoading' /\ mountedRef' /\ ~ MicrotaskPending') =>
          requests'[1].status = "pending"
    /\ InitResumes("fulfilled") =>
          /\ currentData' = 1
          /\ IssuedInStep = 1
          /\ requests'[2].origin = "prefetch"
          /\ bufferPromiseRef' = 2
          /\ Ready'
    /\ (Len(requests') >= 2 /\ requests'[2].origin = "prefetch") =>
          requests'[1].status = "fulfilled"
    /\ ~ isInitialLoading => ~ isInitialLoading'

\* C5: mounting issues exactly one request; while InitialLoading that request
\* is the only one and nothing is installed or buffered; its success installs
\* the item, issues exactly one prefetch into the slot and makes the screen
\* Ready; InitialLoading is never re-entered.
C5_InitialLoad == [][C5_Step]_vars

C5_Witness ==
    /\ Ready
    /\ currentData = 1
    /\ bufferPromiseRef = 2
    /\ advances = 0

\* What C6 requires of a single step.
C6_Step ==
    /\ AdvanceResumes("rejected") =>
          /\ error' # NoError
          /\ bufferPromiseRef' = NoRequest
          /\ currentData' = currentData
          /\ installs' = installs
          /\ ~ isTransitioning'
          /\ IssuedInStep = 0
    /\ (AdvanceAwaits /\ bufferPromiseRef = NoRequest) =>
          /\ IssuedInStep = 1
          /\ waiters'[Len(waiters')].req = Len(requests')
          /\ requests'[Len(requests')].status = "pending"

\* C6: when the request awaited by an advance rejects, an error is set, the
\* slot is cleared, the current item is kept and the Transitioning flag is
\* reset; an advance that finds the slot empty issues a fresh request and
\* awaits that one.
C6_FailedAdvance == [][C6_Step]_vars

C6_Witness ==
    /\ currentData # NoRequest
    /\ Len(waiters) = 1
    /\ waiters[1].kind = "next"
    /\ requests[waiters[1].req].origin = "advance"
    /\ \E r \in Rejected : currentData < r /\ r < waiters[1].req

\* What C7 requires of a single step.
C7_Step ==
    /\ InitResumes("rejected") =>
          /\ ~ isInitialLoading'
          /\ error' # NoError
          /\ currentData' = NoRequest
          /\ bufferPromiseRef' = NoRequest
          /\ IssuedInStep = 0
          /\ waiters' = <<>>
    /\ (Len(requests) = 1 /\ requests[1].status = "rejected" /\ IssuedInStep > 0) =>
          /\ AdvanceAwaits
          /\ requests'[Len(requests')].origin = "advance"

\* C7: when the initial request rejects the screen leaves InitialLoading with
\* an error, installs nothing, leaves the slot empty, and issues no further
\* request until the user advances.
C7_FailedInitialLoad == [][C7_Step]_vars

C7_Witness ==
    /\ Len(requests) = 1
    /\ requests[1].status = "rejected"
    /\ error = "init"
    /\ ~ isInitialLoading

\* The control that re-triggers generation is rendered.
RetriggerRendered ==
    CASE mode = "READING" -> ReadingNextEnabled
      [] mode = "WRITING" -> WritingCardShown
      [] mode = "VISUAL"  -> VisualAreaShown

\* C8: in every mode an error leaves a control that re-triggers generation,
\* and once a re-triggered request has succeeded the error is cleared: no
\* item issued after the failed request is current while the error is shown.
C8_ErrorIsRetryable ==
    (error # NoError /\ ~ MicrotaskPending /\ waiters = <<>>) =>
        /\ RetriggerRendered
        /\ \E r \in Rejected : currentData < r

\* C9: the selector of every request read the mode's WordStats as it was when
\* the request was issued.
C9_SelectorReadsCurrentStats ==
    \A r \in Ids : requests[r].statsRead = requests[r].statsAtIssue

(***************************************************************************)
(* Properties of the selector                                              *)
(***************************************************************************)
LearningSelected == { i \in 1..Len(suggested) : Includes(vocabulary.learningWords, suggested[i]) }

KnownSelected == { i \in 1..Len(suggested) : ~ Includes(vocabulary.learningWords, suggested[i]) }

\* C10: the selector returns at most 5 words, no word twice, only words of
\* validWords, and a known word only together with min(3, |learningPool|)
\* learning words.
C10_SelectorBounds ==
    /\ Len(suggested) <= 5
    /\ \A i \in 1..Len(suggested) : \A j \in 1..Len(suggested) :
          i # j => suggested[i] # suggested[j]
    /\ Range(suggested) \subseteq Range(vocabulary.validHiraganaWords)
    /\ KnownSelected # {} =>
          Cardinality(LearningSelected) = Min(3, Len(vocabulary.learningWords))

C10_Witness ==
    /\ Len(suggested) = 5
    /\ Len(vocabulary.learningWords) > 3
    /\ Cardinality(LearningSelected) = 3
    /\ Cardinality(KnownSelected) = 2

(***************************************************************************)
(* Properties of the selector's mix                                        *)
(***************************************************************************)
LearningPoolSet == Range(vocabulary.learningWords)

KnownPoolSet == Range(vocabulary.validHiraganaWords) \ LearningPoolSet

LearningTaken == Min(3, Cardinality(LearningPoolSet))

KnownTaken == Min(Cardinality(KnownPoolSet), Max(0, 5 - LearningTaken))

\* C11: the selector's result is exactly min(3, |learningPool|) learning words
\* followed by exactly min(|knownPool|, max(0, 5 - learningTaken)) known words,
\* where learningPool = learningWords and knownPool = validWords minus
\* learningWords; the pools are disjoint, their union is validWords, and every
\* learning word of the result precedes every known word of the result.
C11_SelectorMix ==
    /\ LearningPoolSet \cap KnownPoolSet = {}
    /\ LearningPoolSet \cup KnownPoolSet = Range(vocabulary.validHiraganaWords)
    /\ selected =>
          /\ Len(suggested) = LearningTaken + KnownTaken
          /\ Cardinality({ suggested[i] : i \in 1..Min(LearningTaken, Len(suggested)) })
                = LearningTaken
          /\ \A i \in 1..Len(suggested) :
                IF i <= LearningTaken THEN suggested[i] \in LearningPoolSet
                ELSE suggested[i] \in KnownPoolSet
          /\ \A i \in LearningSelected : \A j \in KnownSelected : i < j

C11_Witness ==
    /\ selected
    /\ Cardinality(LearningPoolSet) = 2
    /\ Cardinality(KnownPoolSet) = 4
    /\ Len(suggested) = 5
    /\ Cardinality(LearningSelected) = 2
    /\ Cardinality(KnownSelected) = 3

FewWords == Cardinality(LearningPoolSet) + Cardinality(KnownPoolSet) < 5

\* C12 as stated: with an empty learning pool all slots (up to 5) come from the
\* known pool; with fewer than 5 words in both pools together the selector
\* returns all of them; with both pools empty it returns the empty list.
C12_ReturnsAllWhenFew ==
    selected =>
       /\ LearningPoolSet = {} =>
             /\ Range(suggested) \subseteq KnownPoolSet
             /\ Len(suggested) = Min(5, Cardinality(KnownPoolSet))
       /\ FewWords => Range(suggested) = Range(vocabulary.validHiraganaWords)
       /\ (LearningPoolSet = {} /\ KnownPoolSet = {}) => suggested = <<>>

\* C12, amended: with an empty learning pool all slots (up to 5) come from the
\* known pool; with fewer than 5 words in both pools together the selector
\* returns every known word and min(3, |learningPool|) learning words, which
\* is all of them unless the learning pool has 4 words; with both pools empty
\* it returns the empty list.
C12_EdgeCases ==
    selected =>
       /\ LearningPoolSet = {} =>
             /\ Range(suggested) \subseteq KnownPoolSet
             /\ Len(suggested) = Min(5, Cardinality(KnownPoolSet))
       /\ FewWords =>
             /\ KnownPoolSet \subseteq Range(suggested)
             /\ Cardinality(Range(suggested) \cap LearningPoolSet) = LearningTaken
             /\ Cardinality(LearningPoolSet) # 4 =>
                   Range(suggested) = Range(vocabulary.validHiraganaWords)
             /\ Cardinality(LearningPoolSet) = 4 => Len(suggested) = 3
       /\ (LearningPoolSet = {} /\ KnownPoolSet = {}) => suggested = <<>>

C12_Witness ==
    /\ selected
    /\ Cardinality(LearningPoolSet) = 4
    /\ KnownPoolSet = {}
    /\ Len(suggested) = 3

(***************************************************************************)
(* Properties of the selector's preference                                 *)
(***************************************************************************)
Pools == { LearningPoolSet, KnownPoolSet }

LeastUsed(pool) == { w \in pool : \A v \in pool : Count(Live, w) <= Count(Live, v) }

\* Position of the first word a pool contributes to the result, 0 if none.
FirstSlot(pool) ==
    IF pool = LearningPoolSet THEN (IF LearningTaken > 0 THEN 1 ELSE 0)
    ELSE (IF KnownTaken > 0 THEN LearningTaken + 1 ELSE 0)

\* C13: within each pool every selected word has a usage count (absent = 0)
\* less than or equal to the count of every unselected word of that pool, and
\* the selected words of a pool appear in non-decreasing count order; among
\* words of equal count the choice is free: before the call, every least-used
\* word of a pool is the first pick of that pool in some possible result.
C13_LeastUsedFirst ==
    /\ selected =>
          \A pool \in Pools :
             /\ \A s \in pool \cap Range(suggested) : \A u \in pool \ Range(suggested) :
                   Count(Live, s) <= Count(Live, u)
             /\ \A i \in 1..Len(suggested) : \A j \in 1..Len(suggested) :
                   (i < j /\ suggested[i] \in pool /\ suggested[j] \in pool)
                      => Count(Live, suggested[i]) <= Count(Live, suggested[j])
    /\ ~ selected =>
          LET results == getSuggestedWords(vocabulary, Live)
          IN \A pool \in Pools : \A w \in LeastUsed(pool) :
                FirstSlot(pool) # 0 => \E x \in results : x[FirstSlot(pool)] = w

C13_Witness ==
    /\ selected
    /\ \E u \in KnownPoolSet \ Range(suggested) : Count(Live, u) = 1
    /\ \E i \in KnownSelected : \E j \in KnownSelected :
          /\ i < j
          /\ Count(Live, suggested[i]) = 0
          /\ Count(Live, suggested[j]) = 1

(***************************************************************************)
(* The App's three WordStats on their own: the screens stay mounted once   *)
(* visited, so updates of the three modes interleave freely.  Each step    *)
(* is one call of a screen's updateWordStats prop.                         *)
(***************************************************************************)
Wa == <<1>>
Waa == <<1, 1>>
Wb == <<2>>

StatsVocabulary == [validHiraganaWords |-> <<Wa, Waa, Wb>>, learningWords |-> <<Wb>>]

\* What JSON.parse of a stored WordStats yields: nothing stored, or counts of
\* an earlier session.
RestoredStats == { EmptyStats, [w \in {Waa} |-> 2] }

\* Texts of generated items (reading sentence, writing challenge).
ScanTexts == { <<1, 1, 1>>, <<2, 1>>, <<3>> }

InitStats ==
    /\ mode = "READING"
    /\ vocabulary = StatsVocabulary
    /\ wordStats \in [Modes -> RestoredStats]
    /\ InitScreen
    /\ AppInSession

\* processNewSentence (reading) and handleReveal (writing): count the
\* vocabulary words in the item's text and submit the counts.
SubmitUsedCounts(m, text) ==
    /\ m \in {"READING", "WRITING"}
    /\ Len(updateLog) < MaxUpdates
    /\ LET usedCounts == countUsedWords(text, vocabulary)
       IN /\ wordStats' = updateWordStats(wordStats, m, usedCounts)
          /\ updateLog' = Append(updateLog,
                                 [mode |-> m, text |-> text, wordCounts |-> usedCounts])
    /\ UNCHANGED << mode, vocabulary, mountedRef, requests, bufferPromiseRef, currentData,
                    currentIndex, isInitialLoading, isTransitioning, error, userInput,
                    isRevealed, validationState, waiters, installs, advances, suggested,
                    selected, startStats, crashed, appVars, credited >>

\* handleSubmit (visual) with a correct answer: { [targetWord]: 3 }.
SubmitReward(targetWord) ==
    /\ Len(updateLog) < MaxUpdates
    /\ LET stats == [w \in {targetWord} |-> 3]
       IN /\ wordStats' = updateWordStats(wordStats, "VISUAL", stats)
          /\ updateLog' = Append(updateLog,
                                 [mode |-> "VISUAL", text |-> targetWord, wordCounts |-> stats])
    /\ UNCHANGED << mode, vocabulary, mountedRef, requests, bufferPromiseRef, currentData,
                    currentIndex, isInitialLoading, isTransitioning, error, userInput,
                    isRevealed, validationState, waiters, installs, advances, suggested,
                    selected, startStats, crashed, appVars, credited >>

NextStats ==
    \/ \E m \in {"READING", "WRITING"} : \E text \in ScanTexts : SubmitUsedCounts(m, text)
    \/ \E targetWord \in Range(vocabulary.validHiraganaWords) : SubmitReward(targetWord)

SpecStats == InitStats /\ [][NextStats]_vars

(***************************************************************************)
(* Properties of the usage tracker                                         *)
(***************************************************************************)
\* Sum of the deltas submitted for word w in mode m by the first n updates.
RECURSIVE SubmittedFor(_, _, _)
SubmittedFor(m, w, n) ==
    IF n = 0 THEN 0
    ELSE SubmittedFor(m, w, n - 1)
         + (IF updateLog[n].mode = m THEN Count(updateLog[n].wordCounts, w) ELSE 0)

WordsSeen(m) ==
    (DOMAIN startStats[m])
       \cup UNION { DOMAIN updateLog[n].wordCounts :
                       n \in { k \in 1..Len(updateLog) : updateLog[k].mode = m } }

\* C14: in each mode, after any sequence and interleaving of stats updates,
\* the count of every word is a non-negative integer equal to its restored
\* startup value plus the sum of all deltas submitted for it in that mode:
\* counts never decrease, no entry is removed, no update is lost, and an
\* update of one mode leaves the WordStats of the other two modes unchanged.
C14_CountIsStartPlusDeltas ==
    \A m \in Modes :
       /\ DOMAIN wordStats[m] = WordsSeen(m)
       /\ \A w \in WordsSeen(m) :
             /\ wordStats[m][w] \in Nat
             /\ wordStats[m][w] = Count(startStats[m], w) + SubmittedFor(m, w, Len(updateLog))
             /\ wordStats[m][w] >= Count(startStats[m], w)
       /\ \A n \in 1..Len(updateLog) : \A w \in DOMAIN updateLog[n].wordCounts :
             updateLog[n].wordCounts[w] >= 1

C14_Witness ==
    /\ \E i \in 1..Len(updateLog) : \E j \in 1..Len(updateLog) :
          updateLog[i].mode # updateLog[j].mode
    /\ \E m \in Modes :
          /\ Count(startStats[m], Waa) > 0
          /\ SubmittedFor(m, Waa, Len(updateLog)) > 0
          /\ wordStats[m][Waa] > startStats[m][Waa]

\* Occurrences of word in text found left to right, each search starting
\* after the end of the previous match.
RECURSIVE NonOverlapping(_, _, _)
NonOverlapping(text, word, from) ==
    LET pos == IndexOf(text, word, from)
    IN IF pos = -1 THEN 0 ELSE 1 + NonOverlapping(text, word, pos + Len(word))

\* C15: in reading and writing modes the count added for a vocabulary word is
\* the number of non-overlapping occurrences of the word in the item's text,
\* scanning left to right with the next search starting after the end of the
\* previous match; a word with zero occurrences gets no delta.
C15_NonOverlappingCount ==
    \A n \in 1..Len(updateLog) :
       updateLog[n].mode \in {"READING", "WRITING"} =>
          \A w \in Range(vocabulary.validHiraganaWords) :
             LET occurrences == NonOverlapping(updateLog[n].text, w, 0)
             IN IF occurrences = 0 THEN w \notin DOMAIN updateLog[n].wordCounts
                ELSE /\ w \in DOMAIN updateLog[n].wordCounts
                     /\ updateLog[n].wordCounts[w] = occurrences

(***************************************************************************)
(* Properties of the visual quiz                                           *)
(***************************************************************************)
\* A step in which a submission is judged: the verdict changes to v.
Judged(v) == validationState # v /\ validationState' = v

\* What C16 requires of a single step.
C16_Step ==
    mode = "VISUAL" =>
       LET targetWord == CurrentPayload.targetWord
           matches == normalizeVisual(userInput) = normalizeVisual(targetWord)
       IN /\ wordStats' # wordStats =>
                /\ currentData # NoRequest
                /\ matches
                /\ Judged("correct")
          /\ Judged("correct") =>
                /\ matches
                /\ DOMAIN wordStats'[mode] = (DOMAIN wordStats[mode]) \cup {targetWord}
                /\ \A w \in DOMAIN wordStats'[mode] :
                      wordStats'[mode][w] =
                         Count(wordStats[mode], w) + (IF w = targetWord THEN 3 ELSE 0)
                /\ \A m \in Modes \ {mode} : wordStats'[m] = wordStats[m]
          /\ Judged("incorrect") =>
                /\ ~ matches
                /\ wordStats' = wordStats

IncompletePayload == [NoPayload EXCEPT !.missing = TRUE]

FulfilIncomplete(r) ==
    /\ ~ MicrotaskPending
    /\ r \in 1..Len(requests)
    /\ requests[r].status = "pending"
    /\ requests[r].step = LastStep
    /\ requests' = [requests EXCEPT ![r].status = "fulfilled", ![r].payload = IncompletePayload]
    /\ UNCHANGED << mode, vocabulary, wordStats, mountedRef, bufferPromiseRef, currentData,
                    currentIndex, isInitialLoading, isTransitioning, error, userInput,
                    isRevealed, validationState, waiters, installs, advances, suggested, others >>

\* Reading, init: setCurrentData(data), then countUsedWords throws; the catch
\* sets the error, the prefetch is never queued.
ResumeInitThrows ==
    /\ MicrotaskPending
    /\ LET i == NextRunnable
           w == waiters[i]
       IN /\ w.kind = "init"
          /\ requests[w.req].status = "fulfilled"
          /\ ~ Processable(w.req)
          /\ currentData' = w.req
          /\ installs' = Append(installs, w.req)
          /\ error' = "init"
          /\ isInitialLoading' = FALSE
          /\ waiters' = RemoveAt(waiters, i)
    /\ UNCHANGED << mode, vocabulary, wordStats, mountedRef, requests, bufferPromiseRef,
                    currentIndex, isTransitioning, userInput, isRevealed, validationState,
                    advances, suggested, others >>

\* Reading, handleNextSentence: the same throw inside its try block.
ResumeNextThrows ==
    /\ MicrotaskPending
    /\ LET i == NextRunnable
           w == waiters[i]
       IN /\ w.kind = "next"
          /\ requests[w.req].status = "fulfilled"
          /\ ~ Processable(w.req)
          /\ currentData' = w.req
          /\ installs' = Append(installs, w.req)
          /\ error' = "next"
          /\ bufferPromiseRef' = NoRequest
          /\ isTransitioning' = FALSE
          /\ waiters' = RemoveAt(waiters, i)
    /\ UNCHANGED << mode, vocabulary, wordStats, mountedRef, requests, currentIndex,
                    isInitialLoading, userInput, isRevealed, validationState, advances,
                    suggested, others >>

\* The render reads currentData.hiragana.replace (reading) or
\* currentBatch?.challenges[currentIndex] (writing) once neither the loader
\* nor the error panel is shown.
RenderThrows ==
    /\ mode \in {"READING", "WRITING"}
    /\ ~ isInitialLoading
    /\ error = NoError
    /\ currentData # NoRequest
    /\ CurrentPayload.missing

\* No error boundary: an exception during render unmounts the whole tree.
RenderCrash ==
    /\ ~ crashed
    /\ RenderThrows
    /\ crashed' = TRUE
    /\ UNCHANGED << mode, vocabulary, wordStats, mountedRef, requests, bufferPromiseRef,
                    currentData, currentIndex, isInitialLoading, isTransitioning, error,
                    userInput, isRevealed, validationState, waiters, installs, advances,
                    suggested, selected, startStats, updateLog, appVars, credited >>

\* The screen renders after every handler, before the next event.
Rendered == ~ crashed /\ ~ RenderThrows

NextMalformed ==
    \/ Rendered /\ Next
    \/ Rendered /\ \E r \in 1..MaxRequests : FulfilIncomplete(r)
    \/ Rendered /\ ResumeInitThrows
    \/ Rendered /\ ResumeNextThrows
    \/ RenderCrash

SpecMalformed == Init /\ [][NextMalformed]_vars

\* C17: a generator response that is empty, unparseable or missing a required
\* field is a generation failure for the pipeline: it is never installed as
\* the current item, and the screen does not crash.
C17_MalformedIsFailure ==
    /\ \A r \in Ids :
          (requests[r].status = "fulfilled" /\ requests[r].payload.missing)
             => (currentData # r /\ ~ Includes(installs, r))
    /\ ~ crashed

(***************************************************************************)
(* Properties of the visual generation request                             *)
(***************************************************************************)
TextStepFailures == {"text step failed", "no image description"}

\* What C18 requires of a single step.
C18_Step ==
    mode = "VISUAL" =>
       /\ \A r \in Ids :
             LET before == requests[r]
                 after == requests'[r]
             IN /\ (before.status = "pending" /\ after.status = "fulfilled")
                      => before.step = "image"
                /\ after.status = "fulfilled" => (after.step = "image" /\ after.cause = "none")
                /\ before.step = "image" => after.step = "image"
                /\ (before.step = "text" /\ after.step = "image")
                      => (before.status = "pending" /\ after.status = "pending")
                /\ (after.status = "rejected" /\ after.cause \in TextStepFailures)
                      => after.step = "text"
                /\ (after.status = "rejected" /\ after.step = "image")
                      => after.cause = "image step failed"
                /\ before.status # "pending" => after = before
       /\ \A r1 \in Ids : \A r2 \in Ids :
             (requests'[r1].status # requests[r1].status
                /\ requests'[r2].status # requests[r2].status) => r1 = r2

\* C18: a visual generation request performs the text step and then the image
\* step; it yields an item only if both steps succeed; the image step is not
\* started when the text step fails or yields no image description; a failure
\* of either step is one rejection of that single request.
C18_TextThenImage == [][C18_Step]_vars

C18_Witness ==
    /\ mode = "VISUAL"
    /\ \E r \in Ids : requests[r].status = "fulfilled" /\ requests[r].step = "image"
    /\ \E r \in Ids : /\ requests[r].status = "rejected"
                      /\ requests[r].cause = "no image description"
                      /\ requests[r].step = "text"
    /\ \E r \in Ids : /\ requests[r].status = "rejected"
                      /\ requests[r].cause = "image step failed"

(***************************************************************************)
(* Properties of a failed background prefetch                              *)
(***************************************************************************)
\* A step in which the request held in the prefetch slot rejects.
SlotRejects ==
    /\ bufferPromiseRef # NoRequest
    /\ requests[bufferPromiseRef].status = "pending"
    /\ requests'[bufferPromiseRef].status = "rejected"

\* What C19 requires of a single step.
C19_Step ==
    /\ (Ready /\ SlotRejects) =>
          /\ Ready'
          /\ currentData' = currentData
          /\ bufferPromiseRef' = bufferPromiseRef
          /\ UNCHANGED << currentIndex, userInput, isRevealed, validationState, wordStats,
                          installs, waiters >>
    /\ (error' # error /\ error' # NoError) =>
          (AdvanceResumes("rejected") \/ InitResumes("rejected"))
    /\ AdvanceResumes("rejected") => error' # NoError
    /\ InitResumes("rejected") => error' # NoError

\* C19: a background prefetch that rejects while the screen is Ready changes
\* no visible state at that moment (no error, same current item, the slot
\* still holds the failed request); the failure becomes an error only in the
\* continuation of an advance (or of the initial load) that awaited the
\* failed request, and every awaited failure does become an error.
C19_SilentUntilAwaited == [][C19_Step]_vars

C19_Witness ==
    /\ Ready
    /\ bufferPromiseRef # NoRequest
    /\ requests[bufferPromiseRef].status = "rejected"
    /\ waiters = <<>>

(***************************************************************************)
(* Progress of the loading states.  React runs the init effect after the   *)
(* first render, and the continuation of an `await` runs as a microtask    *)
(* as soon as the awaited promise has settled: both are weakly fair.  That *)
(* every issued request eventually settles is the hypothesis of the claim: *)
(* each request's generator steps are weakly fair.                         *)
(***************************************************************************)
Continuation == ResumeInitOk \/ ResumeInitFail \/ ResumeNextOk \/ ResumeNextFail

GeneratorStep(r) == TextStepDone(r) \/ Fulfil(r) \/ Reject(r)

\* A handler suspends only while there is room for the request its
\* continuation will issue; continuations and generator steps are never held back.
LiveRoom ==
    Len(waiters') > Len(waiters) => Len(requests') + Len(waiters') <= MaxLiveRequests

NextLive == Next /\ LiveRoom

SpecLive ==
    /\ Init
    /\ [][NextLive]_vars
    /\ WF_vars(Mount)
    /\ WF_vars(Continuation)
    /\ \A r \in 1..MaxRequests : WF_vars(GeneratorStep(r))

\* Some suspended handler of the given kind awaits a request that is pending
\* before and after the step.
StillAwaiting(kind) ==
    \E i \in 1..Len(waiters) :
       /\ waiters[i].kind = kind
       /\ requests[waiters[i].req].status = "pending"
       /\ requests'[waiters[i].req].status = "pending"

\* What C20 requires of a single step.
C20_Step ==
    /\ StillAwaiting("init") => (isInitialLoading /\ isInitialLoading' /\ IssuedInStep = 0)
    /\ StillAwaiting("next") => (isTransitioning /\ isTransitioning' /\ IssuedInStep = 0)

\* C20: if every issued request eventually settles, every InitialLoading
\* episode and every Transitioning episode eventually ends (the flag is reset
\* on success and on failure); while the awaited request has not settled the
\* screen stays in that state and issues no further request.
C20_LoadingEnds ==
    /\ isInitialLoading ~> ~ isInitialLoading
    /\ isTransitioning ~> ~ isTransitioning
    /\ [][C20_Step]_vars

C20_Witness ==
    /\ ~ isInitialLoading
    /\ ~ isTransitioning
    /\ currentData # NoRequest
    /\ error = "next"
    /\ waiters = <<>>

(***************************************************************************)
(* Properties of the interactions with the displayed item                  *)
(***************************************************************************)
PrefetchInFlight ==
    bufferPromiseRef # NoRequest /\ requests[bufferPromiseRef].status = "pending"

\* Steps in which the user types, reveals (writing) or submits (visual).
Types ==
    /\ userInput' # userInput
    /\ validationState' = validationState
    /\ isRevealed' = isRevealed

Reveals == ~ isRevealed /\ isRevealed'

Submits == Judged("correct") \/ Judged("incorrect")

\* What C21 requires of a single step.
C21_Step ==
    (Types \/ Reveals \/ Submits) =>
       UNCHANGED << requests, bufferPromiseRef, currentData, waiters, isTransitioning, installs >>

\* What C21 requires of a Ready screen whose prefetch is pending.
C21_Enabled ==
    (Ready /\ PrefetchInFlight /\ ~ MicrotaskPending) =>
       /\ (mode = "WRITING" /\ WritingCardShown /\ ~ isRevealed) =>
             /\ ENABLED handleReveal
             /\ \A t \in Inputs(mode) \ {userInput} : ENABLED TypeInput(t)
       /\ (mode = "VISUAL" /\ validationState # "correct") =>
             /\ \A t \in Inputs(mode) \ {userInput} : ENABLED TypeInput(t)
             /\ Len(userInput) # 0 => ENABLED handleSubmit("click")
             /\ validationState = "idle" => ENABLED handleSubmit("enter")

\* C21: while the screen is Ready and a prefetch is in flight, typing and
\* check/reveal/submit are enabled; they neither wait for the prefetch nor
\* issue a request nor change the prefetch slot or the current item: a
\* handler suspends on the prefetch only in an advance.
C21_InteractionsIgnorePrefetch == [] C21_Enabled /\ [][C21_Step]_vars

C21_Witness ==
    /\ mode = "WRITING"
    /\ Ready
    /\ PrefetchInFlight
    /\ isRevealed
    /\ userInput # <<>>
    /\ validationState = "correct"

(***************************************************************************)
(* The App (src/App.tsx) with its configuration and input screens.  The    *)
(* practice screens appear here as instances: which mode, which vocabulary *)
(* prop, mounted or not, and the generation requests each has issued.      *)
(* Every handler is followed by the render it causes and by the effects of *)
(* that render (the save effects, the init effect of a new screen).        *)
(***************************************************************************)
MaxInstances == 2     \* practice screen instances mounted in one run
MaxIssued == 3        \* generation requests recorded in one run
MaxAppCount == 1      \* usages recorded in a run of the App

TextInputs == { <<>>, << Space >>, << 1 >> }
LearningInputs == { <<>>, << 2 >> }
KeyInputs == { <<>>, << Space >>, << 45 >>, << Space >> \o AIza \o << 45, Space >> }
AppCounts == { [w \in { << 1 >> } |-> 1] }

pipeline == << mode, vocabulary, mountedRef, requests, bufferPromiseRef, currentData,
               currentIndex, isInitialLoading, isTransitioning, error, userInput,
               isRevealed, validationState, waiters, installs, advances, suggested,
               selected, updateLog, credited >>

AppConstructed ==
    /\ view = "INPUT_WORDS"
    /\ practiceMode = "READING"
    /\ apiKey = NoKey
    /\ visitedModes = {"READING"}
    /\ knownWords = <<>>
    /\ learningWords = <<>>
    /\ analyzedData = NullData
    /\ wordStats = [m \in Modes |-> EmptyStats]
    /\ nullStats = {}
    /\ isInitialized = FALSE
    /\ configError = NoError

\* What a browser may hold when the page is opened: nothing, or what an
\* earlier visit (of this or of the previous version) has saved.
Store(key, words, stats) ==
    [k \in StorageKeys |->
        CASE k = ApiKeyItem -> key
          [] k = LegacyItem -> words
          [] k = StatsItem("READING") -> stats
          [] OTHER -> NoItem]

EmptyStore == Store(NoItem, NoItem, NoItem)
KeyOnlyStore == Store(Item(StoredKey), NoItem, NoItem)
EarlierStore == Store(Item(StoredKey), Item(<< 1 >>), Item(stringify([w \in { << 1 >> } |-> 1])))

InitApp ==
    /\ mode = "READING"
    /\ vocabulary = PracticeVocabulary
    /\ AppConstructed
    /\ InitScreen
    /\ envKey \in {NoKey, EnvKey}
    /\ localStorage \in {EmptyStore, KeyOnlyStore, EarlierStore}
    /\ screens = <<>>
    /\ issued = {}

\* WordStatistics reads Object.values(wordStats) while it renders.
WordStatisticsThrows ==
    isInitialized' /\ view' # "CONFIG" /\ practiceMode' \in nullStats'

PracticeShown(v, data, key) == v = "PRACTICE" /\ data # NullData /\ key # NoKey

Mounted(m) == \E i \in 1..Len(screens) : screens[i].mode = m /\ screens[i].mounted

\* The render after a handler: a mounted screen stays mounted (with the
\* vocabulary prop of this render) while its branch is rendered, a screen
\* whose branch appears is mounted and its init effect issues the initial
\* request.  No handler makes more than one branch appear.
Reconcile ==
    LET Wanted(m) == /\ ~ WordStatisticsThrows
                     /\ isInitialized'
                     /\ PracticeShown(view', analyzedData', apiKey')
                     /\ m \in visitedModes'
        kept == [i \in 1..Len(screens) |->
                    IF screens[i].mounted /\ Wanted(screens[i].mode)
                    THEN [screens[i] EXCEPT !.vocabulary = analyzedData']
                    ELSE [screens[i] EXCEPT !.mounted = FALSE]]
        fresh == { m \in Modes : Wanted(m) /\ ~ Mounted(m) }
    IN IF fresh = {}
       THEN screens' = kept /\ issued' = issued
       ELSE LET m == CHOOSE m \in fresh : TRUE
            IN /\ screens' = Append(kept, [mode |-> m, vocabulary |-> analyzedData',
                                           session |-> analyzedData', mounted |-> TRUE])
               /\ issued' = IF m \in nullStats' THEN issued
                            ELSE issued \cup { [instance |-> Len(screens) + 1, n |-> 1,
                                                vocabulary |-> analyzedData'] }

\* Variant: the stats effects depend on isInitialized only.
SaveEffectsStatsOnInit(store) ==
    LET init == isInitialized' # isInitialized
        words == knownWords' # knownWords \/ learningWords' # learningWords \/ init
    IN [k \in StorageKeys |->
          CASE k = KnownItem /\ words -> Item(knownWords')
            [] k = LearningItem /\ words -> Item(learningWords')
            [] (\E m \in Modes : k = StatsItem(m)) /\ init ->
                  Item(StatsText(wordStats', nullStats', CHOOSE m \in Modes : k = StatsItem(m)))
            [] OTHER -> store[k]]

\* The four save effects: each runs when one of its dependencies has changed.
SaveEffects(store) ==
    LET init == isInitialized' # isInitialized
        words == knownWords' # knownWords \/ learningWords' # learningWords \/ init
        Stats(m) == wordStats'[m] # wordStats[m] \/ (m \in nullStats') # (m \in nullStats) \/ init
    IN [k \in StorageKeys |->
          CASE k = KnownItem /\ words -> Item(knownWords')
            [] k = LearningItem /\ words -> Item(learningWords')
            [] \E m \in Modes : k = StatsItem(m) /\ Stats(m) ->
                  Item(StatsText(wordStats', nullStats', CHOOSE m \in Modes : k = StatsItem(m)))
            [] OTHER -> store[k]]

\* The commit of a render: the tree is unmounted when a component threw, the
\* save effects run, the screens are reconciled; the state of the
\* ConfigScreen lives as long as its branch is rendered.
Commit(store) ==
    /\ crashed' = WordStatisticsThrows
    /\ configError' = IF view' = "CONFIG" THEN configError ELSE NoError
    /\ localStorage' = IF WordStatisticsThrows \/ ~ isInitialized' THEN store
                       ELSE SaveEffects(store)
    /\ Reconcile

loadStats(store, m, current) ==
    LET saved == store[StatsItem(m)]
    IN IF ~ saved.present THEN [isNull |-> FALSE, value |-> current]
       ELSE LET parsed == parse(saved.value)
            IN IF parsed.thrown THEN [isNull |-> FALSE, value |-> current]
               ELSE [isNull |-> parsed.isNull, value |-> parsed.value]

\* Variant: the persisted credential is preferred to the configured one.
StartupStoredFirst ==
    /\ ~ isInitialized
    /\ ~ crashed
    /\ LET storedKey == localStorage[ApiKeyItem]
           hasStored == storedKey.present /\ storedKey.value # NoKey
           savedKnown == localStorage[KnownItem]
           savedLearning == localStorage[LearningItem]
           legacyWords == localStorage[LegacyItem]
       IN /\ apiKey' = IF hasStored THEN storedKey.value
                       ELSE IF envKey # NoKey THEN envKey ELSE apiKey
          /\ view' = IF envKey = NoKey /\ ~ hasStored THEN "CONFIG" ELSE view
          /\ knownWords' = IF savedKnown.present THEN savedKnown.value
                           ELSE IF legacyWords.present /\ legacyWords.value # <<>>
                                THEN legacyWords.value ELSE knownWords
          /\ learningWords' = IF savedLearning.present THEN savedLearning.value
                              ELSE learningWords
    /\ wordStats' = [m \in Modes |-> loadStats(localStorage, m, wordStats[m]).value]
    /\ nullStats' = { m \in Modes : loadStats(localStorage, m, wordStats[m]).isNull }
    /\ isInitialized' = TRUE
    /\ startStats' = wordStats'
    /\ UNCHANGED << practiceMode, envKey, analyzedData, visitedModes >>
    /\ Commit(localStorage)
    /\ UNCHANGED pipeline

\* Variant: the save effects run unguarded on the values of the first
\* render, before the loaded values have been applied.
StartupSavesDefaults ==
    /\ ~ isInitialized
    /\ ~ crashed
    /\ LET storedKey == localStorage[ApiKeyItem]
           hasStored == storedKey.present /\ storedKey.value # NoKey
           savedKnown == localStorage[KnownItem]
           savedLearning == localStorage[LearningItem]
           legacyWords == localStorage[LegacyItem]
       IN /\ apiKey' = IF envKey # NoKey THEN envKey
                       ELSE IF hasStored THEN storedKey.value ELSE apiKey
          /\ view' = IF envKey = NoKey /\ ~ hasStored THEN "CONFIG" ELSE view
          /\ knownWords' = IF savedKnown.present THEN savedKnown.value
                           ELSE IF legacyWords.present /\ legacyWords.value # <<>>
                                THEN legacyWords.value ELSE knownWords
          /\ learningWords' = IF savedLearning.present THEN savedLearning.value
                              ELSE learningWords
    /\ wordStats' = [m \in Modes |-> loadStats(localStorage, m, wordStats[m]).value]
    /\ nullStats' = { m \in Modes : loadStats(localStorage, m, wordStats[m]).isNull }
    /\ isInitialized' = TRUE
    /\ startStats' = wordStats'
    /\ UNCHANGED << practiceMode, envKey, analyzedData, visitedModes >>
    /\ crashed' = WordStatisticsThrows
    /\ configError' = configError
    /\ localStorage' = Saved(localStorage, knownWords, learningWords, wordStats, nullStats)
    /\ Reconcile
    /\ UNCHANGED pipeline

\* The init effect of App.
Startup ==
    /\ ~ isInitialized
    /\ ~ crashed
    /\ LET storedKey == localStorage[ApiKeyItem]
           hasStored == storedKey.present /\ storedKey.value # NoKey
           savedKnown == localStorage[KnownItem]
           savedLearning == localStorage[LearningItem]
           legacyWords == localStorage[LegacyItem]
       IN /\ apiKey' = IF envKey # NoKey THEN envKey
                       ELSE IF hasStored THEN storedKey.value ELSE apiKey
          /\ view' = IF envKey = NoKey /\ ~ hasStored THEN "CONFIG" ELSE view
          /\ knownWords' = IF savedKnown.present THEN savedKnown.value
                           ELSE IF legacyWords.present /\ legacyWords.value # <<>>
                                THEN legacyWords.value ELSE knownWords
          /\ learningWords' = IF savedLearning.present THEN savedLearning.value
                              ELSE learningWords
    /\ wordStats' = [m \in Modes |-> loadStats(localStorage, m, wordStats[m]).value]
    /\ nullStats' = { m \in Modes : loadStats(localStorage, m, wordStats[m]).isNull }
    /\ isInitialized' = TRUE
    /\ startStats' = wordStats'
    /\ UNCHANGED << practiceMode, envKey, analyzedData, visitedModes >>
    /\ Commit(localStorage)
    /\ UNCHANGED pipeline

ConfigScreenShown == isInitialized /\ ~ crashed /\ view = "CONFIG"

InputScreenShown == isInitialized /\ ~ crashed /\ view = "INPUT_WORDS" /\ apiKey # NoKey

PracticeScreensShown == isInitialized /\ ~ crashed /\ PracticeShown(view, analyzedData, apiKey)

handleSaveApiKey(key) ==
    /\ apiKey' = key
    /\ view' = "INPUT_WORDS"
    /\ UNCHANGED << practiceMode, envKey, knownWords, learningWords, analyzedData,
                    visitedModes, isInitialized, nullStats,
                    wordStats, startStats >>
    /\ Commit([localStorage EXCEPT ![ApiKeyItem] = Item(key)])
    /\ UNCHANGED pipeline

\* setError of the ConfigScreen: nothing but the message changes.
setError(message) ==
    /\ configError' = message
    /\ UNCHANGED << view, practiceMode, apiKey, envKey, localStorage, knownWords,
                    learningWords, analyzedData, visitedModes, isInitialized, nullStats,
                    screens, issued, wordStats, startStats, crashed >>
    /\ UNCHANGED pipeline

\* Variant: any non-empty key is handed to the App.
handleSaveNoPrefixCheck(inputKey) ==
    /\ ConfigScreenShown
    /\ LET key == Trim(inputKey)
       IN IF key = <<>> THEN setError("empty")
          ELSE handleSaveApiKey(key)

\* ConfigScreen.handleSave: an empty key or one without the prefix only
\* shows a message on the screen.
handleSave(inputKey) ==
    /\ ConfigScreenShown
    /\ LET key == Trim(inputKey)
       IN IF key = <<>> THEN setError("empty")
          ELSE IF ~ StartsWith(key, AIza) THEN setError("prefix")
          ELSE handleSaveApiKey(key)

\* The onChange of the key input clears the message.
setInputKey ==
    /\ ConfigScreenShown
    /\ configError # NoError
    /\ setError(NoError)

setKnownWords(text) ==
    /\ InputScreenShown
    /\ text # knownWords
    /\ knownWords' = text
    /\ UNCHANGED << view, practiceMode, apiKey, envKey, learningWords, analyzedData,
                    visitedModes, isInitialized, nullStats,
                    wordStats, startStats >>
    /\ Commit(localStorage)
    /\ UNCHANGED pipeline

setLearningWords(text) ==
    /\ InputScreenShown
    /\ text # learningWords
    /\ learningWords' = text
    /\ UNCHANGED << view, practiceMode, apiKey, envKey, knownWords, analyzedData,
                    visitedModes, isInitialized, nullStats,
                    wordStats, startStats >>
    /\ Commit(localStorage)
    /\ UNCHANGED pipeline

handleStartPractice ==
    /\ analyzedData' = analyze(knownWords, learningWords)
    /\ view' = "PRACTICE"
    /\ practiceMode' = "READING"
    /\ visitedModes' = {"READING"}
    /\ UNCHANGED << apiKey, envKey, knownWords, learningWords, isInitialized, nullStats,
                    wordStats, startStats >>
    /\ Commit(localStorage)
    /\ UNCHANGED pipeline

AppRoom == Len(screens) < MaxInstances /\ Cardinality(issued) < MaxIssued

\* Variant: the start button starts whatever the inputs hold.
handleStartUnguarded ==
    /\ InputScreenShown
    /\ AppRoom
    /\ handleStartPractice

\* InputScreen.handleStart (the button is disabled under the same condition).
handleStart ==
    /\ InputScreenShown
    /\ Len(Trim(knownWords)) > 0 \/ Len(Trim(learningWords)) > 0
    /\ AppRoom
    /\ handleStartPractice

\* Variant: the analysis of the session that was left is kept.
handleBackKeepsData ==
    /\ PracticeScreensShown
    /\ view' = "INPUT_WORDS"
    /\ UNCHANGED << practiceMode, apiKey, envKey, knownWords, learningWords, visitedModes,
                    isInitialized, nullStats, wordStats, startStats, analyzedData >>
    /\ Commit(localStorage)
    /\ UNCHANGED pipeline

handleBackToInput ==
    /\ PracticeScreensShown
    /\ view' = "INPUT_WORDS"
    /\ analyzedData' = NullData
    /\ UNCHANGED << practiceMode, apiKey, envKey, knownWords, learningWords, visitedModes,
                    isInitialized, nullStats, wordStats, startStats >>
    /\ Commit(localStorage)
    /\ UNCHANGED pipeline

switchTab(m) ==
    /\ PracticeScreensShown
    /\ m \in visitedModes \/ AppRoom
    /\ practiceMode' = m
    /\ visitedModes' = visitedModes \cup {m}
    /\ UNCHANGED << view, apiKey, envKey, knownWords, learningWords, analyzedData,
                    isInitialized, nullStats, wordStats, startStats >>
    /\ Commit(localStorage)
    /\ UNCHANGED pipeline

RECURSIVE Sum(_, _)
Sum(stats, words) ==
    IF words = {} THEN 0
    ELSE LET w == CHOOSE w \in words : TRUE IN stats[w] + Sum(stats, words \ {w})

Recorded(all) ==
    Sum(all["READING"], DOMAIN all["READING"]) + Sum(all["WRITING"], DOMAIN all["WRITING"])
        + Sum(all["VISUAL"], DOMAIN all["VISUAL"])

IssuedBy(i) == { r \in issued : r.instance = i }

HasIssued(i) == IssuedBy(i) # {}

\* Variant: the request is built from the App's vocabulary of the moment.
ScreenRequestReadsApp(i) ==
    /\ i \in 1..Len(screens)
    /\ HasIssued(i)
    /\ Cardinality(issued) < MaxIssued
    /\ issued' = issued \cup { [instance |-> i, n |-> Cardinality(IssuedBy(i)) + 1,
                                 vocabulary |-> analyzedData] }
    /\ UNCHANGED << view, practiceMode, apiKey, envKey, localStorage, knownWords,
                    learningWords, analyzedData, visitedModes, isInitialized, nullStats,
                    screens, wordStats, startStats, crashed, configError >>
    /\ UNCHANGED pipeline

\* A prefetch or an advance of instance i (loadNextBuffer, handleNext): the
\* request is built from the vocabulary the handler's closure holds, also
\* when the continuation runs after the screen has been unmounted.
ScreenRequest(i) ==
    /\ i \in 1..Len(screens)
    /\ HasIssued(i)
    /\ Cardinality(issued) < MaxIssued
    /\ issued' = issued \cup { [instance |-> i, n |-> Cardinality(IssuedBy(i)) + 1,
                                 vocabulary |-> screens[i].vocabulary] }
    /\ UNCHANGED << view, practiceMode, apiKey, envKey, localStorage, knownWords,
                    learningWords, analyzedData, visitedModes, isInitialized, nullStats,
                    screens, wordStats, startStats, crashed, configError >>
    /\ UNCHANGED pipeline

\* updateWordStats called by instance i; the setter spreads the previous
\* value, so a null state becomes a mapping.
ScreenUpdateStats(i, wordCounts) ==
    /\ isInitialized
    /\ ~ crashed
    /\ i \in 1..Len(screens)
    /\ HasIssued(i)
    /\ Recorded(wordStats) < MaxAppCount
    /\ wordStats' = updateWordStats(wordStats, screens[i].mode, wordCounts)
    /\ nullStats' = nullStats \ {screens[i].mode}
    /\ UNCHANGED << view, practiceMode, apiKey, envKey, knownWords, learningWords,
                    analyzedData, visitedModes, isInitialized,
                    startStats >>
    /\ Commit(localStorage)
    /\ UNCHANGED pipeline

\* The page is loaded again: a new App is constructed over the same store.
Reload ==
    /\ view' = "INPUT_WORDS"
    /\ practiceMode' = "READING"
    /\ apiKey' = NoKey
    /\ visitedModes' = {"READING"}
    /\ knownWords' = <<>>
    /\ learningWords' = <<>>
    /\ analyzedData' = NullData
    /\ wordStats' = [m \in Modes |-> EmptyStats]
    /\ nullStats' = {}
    /\ isInitialized' = FALSE
    /\ crashed' = FALSE
    /\ screens' = <<>>
    /\ issued' = {}
    /\ configError' = NoError
    /\ UNCHANGED << envKey, localStorage, startStats >>
    /\ UNCHANGED pipeline

NextApp ==
    \/ Startup
    \/ \E inputKey \in KeyInputs : handleSave(inputKey)
    \/ setInputKey
    \/ \E text \in TextInputs : setKnownWords(text)
    \/ \E text \in LearningInputs : setLearningWords(text)
    \/ handleStart
    \/ handleBackToInput
    \/ \E m \in Modes : switchTab(m)
    \/ \E i \in 1..MaxInstances : ScreenRequest(i)
    \/ \E i \in 1..MaxInstances, wordCounts \in AppCounts : ScreenUpdateStats(i, wordCounts)
    \/ Reload

SpecApp == InitApp /\ [][NextApp]_vars

AppTypeOK ==
    /\ view \in Views
    /\ practiceMode \in Modes
    /\ visitedModes \subseteq Modes
    /\ nullStats \subseteq Modes
    /\ isInitialized \in BOOLEAN
    /\ Len(screens) <= MaxInstances
    /\ Cardinality(issued) <= MaxIssued
    /\ configError \in {NoError, "empty", "prefix"}

(***************************************************************************)
(* C22                                                                     *)
(***************************************************************************)
MountedScreens == { i \in 1..Len(screens) : screens[i].mounted }

\* C22: every generation request of a practice screen instance is built from
\* the vocabulary the instance was mounted with; while an instance is mounted
\* its vocabulary prop and the App's analyzedData are that same vocabulary,
\* which is the analysis of the two inputs made when the session started.
C22_SessionVocabulary ==
    /\ \A r \in issued : r.vocabulary = screens[r.instance].session
    /\ \A i \in MountedScreens :
          /\ screens[i].vocabulary = screens[i].session
          /\ analyzedData = screens[i].session
          /\ analyzedData = analyze(knownWords, learningWords)

\* An instance of an earlier session issues a request while a session over
\* another vocabulary is running.
C22_Witness ==
    /\ MountedScreens # {}
    /\ \E r \in issued :
          /\ r.n >= 2
          /\ ~ screens[r.instance].mounted
          /\ r.vocabulary # analyzedData

(***************************************************************************)
(* The analyzer over every short pair of inputs: the input screen is shown *)
(* with some text in each textarea and the user starts the practice.       *)
(***************************************************************************)
MaxTextLen == 3       \* characters in one input text

AnalyzerAlphabet == {1, Latin, Space, IdeographicSpace}

Texts == UNION { [1..n -> AnalyzerAlphabet] : n \in 0..MaxTextLen }

InitAnalyzer ==
    /\ mode = "READING"
    /\ vocabulary = PracticeVocabulary
    /\ wordStats = [m \in Modes |-> EmptyStats]
    /\ InitScreen
    /\ view = "INPUT_WORDS"
    /\ practiceMode = "READING"
    /\ apiKey = StoredKey
    /\ envKey = NoKey
    /\ knownWords \in Texts
    /\ learningWords \in Texts
    /\ analyzedData = NullData
    /\ visitedModes = {"READING"}
    /\ isInitialized = TRUE
    /\ nullStats = {}
    /\ localStorage = Saved(KeyOnlyStore, knownWords, learningWords, wordStats, nullStats)
    /\ screens = <<>>
    /\ issued = {}
    /\ configError = NoError

NextAnalyzer == handleStart

SpecAnalyzer == InitAnalyzer /\ [][NextAnalyzer]_vars

\* The maximal runs of non-whitespace characters of a text.
Tokens(text) ==
    LET n == Len(text)
        Blank(i) == text[i] \in WhitespaceChars
        Run(i, j) == /\ i <= j
                     /\ \A k \in i..j : ~ Blank(k)
                     /\ i = 1 \/ Blank(i - 1)
                     /\ j = n \/ Blank(j + 1)
    IN { SubSeq(text, p[1], p[2]) : p \in { q \in (1..n) \X (1..n) : Run(q[1], q[2]) } }

NoDuplicates(items) == \A i, j \in 1..Len(items) : items[i] = items[j] => i = j

Analyzed == view = "PRACTICE" /\ analyzedData # NullData

\* C23: for all known-words and learning-words texts, validWords is the
\* duplicate-free union of the non-empty whitespace-separated tokens of both
\* inputs, learningWords is the duplicate-free token set of the learning
\* input, and learningWords is a subset of validWords.
C23_AnalyzerWords ==
    Analyzed =>
        /\ Range(analyzedData.validHiraganaWords) = Tokens(knownWords) \cup Tokens(learningWords)
        /\ NoDuplicates(analyzedData.validHiraganaWords)
        /\ Range(analyzedData.learningWords) = Tokens(learningWords)
        /\ NoDuplicates(analyzedData.learningWords)
        /\ Range(analyzedData.learningWords) \subseteq Range(analyzedData.validHiraganaWords)
        /\ \A w \in Range(analyzedData.validHiraganaWords) : Len(w) > 0

\* A token repeated in one input and shared by both, between blanks of both kinds.
C23_Witness ==
    /\ Analyzed
    /\ knownWords = << 1, IdeographicSpace, 1 >>
    /\ learningWords = << Space, 1, Space >>
    /\ analyzedData.validHiraganaWords = << << 1 >> >>
    /\ analyzedData.learningWords = << << 1 >> >>

\* C24: allowedCharacters holds exactly the distinct characters of the
\* Hiragana block that occur in some word of validWords, each once.
C24_AllowedCharacters ==
    Analyzed =>
        /\ Range(analyzedData.allowedCharacters) =
              { c \in HiraganaChars :
                  \E w \in Range(analyzedData.validHiraganaWords) : c \in Range(w) }
        /\ NoDuplicates(analyzedData.allowedCharacters)

\* A word that mixes a Hiragana character, twice, with a letter of another block.
C24_Witness ==
    /\ Analyzed
    /\ knownWords = << 1, Latin, 1 >>
    /\ analyzedData.validHiraganaWords = << << 1, Latin, 1 >> >>
    /\ analyzedData.allowedCharacters = << 1 >>

(***************************************************************************)
(* C25                                                                     *)
(***************************************************************************)
BothBlank == Len(Trim(knownWords)) = 0 /\ Len(Trim(learningWords)) = 0

C25_Step == (view = "INPUT_WORDS" /\ BothBlank) => view' # "PRACTICE"

\* C25: no step that starts with both inputs empty or whitespace-only enters
\* the PRACTICE view, and in every state whose view is PRACTICE the analyzed
\* validWords is present and non-empty.
C25_NeverEmptyVocabulary ==
    /\ [] (view = "PRACTICE" =>
             analyzedData # NullData /\ Len(analyzedData.validHiraganaWords) > 0)
    /\ [][C25_Step]_vars

\* Practice entered from a whitespace-only known input and a one-word learning input.
C25_Witness ==
    /\ view = "PRACTICE"
    /\ knownWords = << Space >>
    /\ learningWords = << 2 >>
    /\ analyzedData.validHiraganaWords = << << 2 >> >>

(***************************************************************************)
(* C26                                                                     *)
(***************************************************************************)
\* What a startup over the present store would restore.
Restorable == [m \in Modes |-> loadStats(localStorage, m, EmptyStats).value]

StartupStep == ~ isInitialized /\ isInitialized'

ReloadStep == isInitialized /\ ~ isInitialized'

C26_Step ==
    /\ ReloadStep => Restorable' = wordStats
    /\ StartupStep /\ ~ crashed' => wordStats' = Restorable

\* C26: once startup has completed, the stored text of every mode is the
\* serialisation of that mode's in-memory WordStats after every step, so the
\* store of a page that is left restores exactly the in-memory totals, and
\* the startup of the next page installs them.
C26_StatsPersisted ==
    /\ [] (isInitialized /\ ~ crashed =>
             \A m \in Modes :
                /\ localStorage[StatsItem(m)] = Item(stringify(wordStats[m]))
                /\ Restorable[m] = wordStats[m])
    /\ [][C26_Step]_vars

\* A usage recorded by the writing screen has survived a reload.
C26_Witness ==
    /\ isInitialized
    /\ screens = <<>>
    /\ startStats["WRITING"] = [w \in { << 1 >> } |-> 1]
    /\ wordStats = startStats

(***************************************************************************)
(* C27: startup over a store whose WordStats text is corrupt               *)
(***************************************************************************)
CorruptTexts == {JsonInvalid, JsonNull}

InitCorrupt ==
    /\ mode = "READING"
    /\ vocabulary = PracticeVocabulary
    /\ AppConstructed
    /\ InitScreen
    /\ envKey = NoKey
    /\ localStorage \in { [store EXCEPT ![StatsItem(m)] = Item(text)] :
                            store \in {EmptyStore, KeyOnlyStore},
                            m \in {"READING", "WRITING"},
                            text \in CorruptTexts }
    /\ screens = <<>>
    /\ issued = {}

SpecCorrupt == InitCorrupt /\ [][NextApp]_vars

IsCorrupt(item) == item.present /\ item.value \in CorruptTexts

C27_Step ==
    StartupStep =>
        \A m \in Modes :
            IsCorrupt(localStorage[StatsItem(m)]) =>
                wordStats'[m] = EmptyStats /\ m \notin nullStats'

\* C27: a corrupt stored WordStats text (unparseable, or parseable but not a
\* mapping) is treated as absent: startup leaves that mode with the empty
\* mapping, completes, and nothing fails afterwards.
C27_CorruptIsAbsent ==
    /\ [] (~ crashed /\ nullStats = {})
    /\ [][C27_Step]_vars

(***************************************************************************)
(* C30                                                                     *)
(***************************************************************************)
StoredCredential ==
    IF localStorage[ApiKeyItem].present THEN localStorage[ApiKeyItem].value ELSE NoKey

C30_Step ==
    StartupStep =>
        /\ envKey # NoKey => apiKey' = envKey /\ view' = "INPUT_WORDS"
        /\ envKey = NoKey /\ StoredCredential # NoKey =>
              apiKey' = StoredCredential /\ view' = "INPUT_WORDS"
        /\ envKey = NoKey /\ StoredCredential = NoKey =>
              apiKey' = NoKey /\ view' = "CONFIG"

\* C30: startup takes the credential from the process configuration if it
\* is there, otherwise from the store if it is there, otherwise it shows the
\* configuration screen; whenever the input screen or a practice screen is
\* shown, and whenever the view is not CONFIG after startup, a credential is set.
C30_CredentialFirst ==
    /\ [] (InputScreenShown \/ PracticeScreensShown => apiKey # NoKey)
    /\ [] (isInitialized /\ ~ crashed /\ view # "CONFIG" => apiKey # NoKey)
    /\ [] (ConfigScreenShown => apiKey = NoKey)
    /\ [][C30_Step]_vars

\* Both sources hold a credential and the configured one was taken.
C30_Witness ==
    /\ InputScreenShown
    /\ envKey = EnvKey
    /\ StoredCredential = StoredKey
    /\ apiKey = EnvKey

(***************************************************************************)
(* Answer checking over every short answer: a Ready writing or visual      *)
(* screen shows an item and the user has typed some text.                  *)
(***************************************************************************)
MaxNormLen == 3       \* characters in a typed answer

IdeographicFullStop == 21
AsciiFullStop == 24

NormAlphabet == {1, 2, Space, IdeographicSpace, IdeographicFullStop, AsciiFullStop}

NormTexts == UNION { [1..n -> NormAlphabet] : n \in 0..MaxNormLen }

NormTargets == { << 1 >>, << 1, 2 >>, << 1, Space, 2, IdeographicFullStop >> }

ItemFor(m, target) ==
    IF m = "WRITING" THEN [NoPayload EXCEPT !.challenges = << [hiragana |-> target] >>]
    ELSE [NoPayload EXCEPT !.targetWord = target]

InitNorm ==
    /\ mode \in {"WRITING", "VISUAL"}
    /\ vocabulary = PracticeVocabulary
    /\ wordStats = [m \in Modes |-> EmptyStats]
    /\ mountedRef = TRUE
    /\ \E target \in NormTargets :
          LET sugg == CHOOSE x \in getSuggestedWords(vocabulary, EmptyStats) : TRUE
              shown == [NewRequest("initial", sugg, EmptyStats, EmptyStats)
                           EXCEPT !.status = "fulfilled", !.step = LastStep,
                                  !.payload = ItemFor(mode, target)]
          IN requests = << shown, NewRequest("prefetch", sugg, EmptyStats, EmptyStats) >>
    /\ bufferPromiseRef = 2
    /\ currentData = 1
    /\ currentIndex = 0
    /\ isInitialLoading = FALSE
    /\ isTransitioning = FALSE
    /\ error = NoError
    /\ userInput \in NormTexts
    /\ isRevealed = FALSE
    /\ validationState = "idle"
    /\ waiters = <<>>
    /\ installs = << 1 >>
    /\ advances = 0
    /\ suggested = <<>>
    /\ selected = FALSE
    /\ startStats = wordStats
    /\ updateLog = <<>>
    /\ crashed = FALSE
    /\ credited = <<>>
    /\ AppInSession

NextNorm ==
    \/ handleReveal
    \/ \E via \in Vias : handleSubmit(via)

SpecNorm == InitNorm /\ [][NextNorm]_vars

\* The characters a mode's comparison ignores.
Ignored(m) == IF m = "WRITING" THEN WhitespaceChars \cup PunctuationChars ELSE WhitespaceChars

RECURSIVE Strip(_, _)
Strip(text, ignored) ==
    IF text = <<>> THEN <<>>
    ELSE IF Head(text) \in ignored THEN Strip(Tail(text), ignored)
    ELSE << Head(text) >> \o Strip(Tail(text), ignored)

Expected ==
    IF mode = "WRITING" THEN CurrentPayload.challenges[currentIndex + 1].hiragana
    ELSE CurrentPayload.targetWord

Checked == validationState \in {"correct", "incorrect"}

\* C28: the answer is judged correct exactly when it equals the expected
\* text once whitespace (U+3000 included) and, in writing mode only, the
\* punctuation marks are removed from both; normalising twice changes
\* nothing, and the ignored characters are eight punctuation marks, the
\* Japanese and ASCII comma, full stop, exclamation and question mark.
C28_NormalisedEquality ==
    /\ Checked => (validationState = "correct"
                     <=> Strip(userInput, Ignored(mode)) = Strip(Expected, Ignored(mode)))
    /\ normalizeWriting(normalizeWriting(userInput)) = normalizeWriting(userInput)
    /\ normalizeVisual(normalizeVisual(userInput)) = normalizeVisual(userInput)
    /\ normalizeWriting(userInput) = Strip(userInput, Ignored("WRITING"))
    /\ normalizeVisual(userInput) = Strip(userInput, Ignored("VISUAL"))
    /\ Cardinality(PunctuationChars) = 8
    /\ IdeographicSpace \in WhitespaceChars

\* A spaced answer ending in a full stop is accepted for its bare form in
\* writing mode.
C28_Witness ==
    /\ mode = "WRITING"
    /\ isRevealed
    /\ userInput = << 1, IdeographicSpace, IdeographicFullStop >>
    /\ Expected = << 1 >>
    /\ validationState = "correct"

(***************************************************************************)
(* C29                                                                     *)
(***************************************************************************)
\* The render shows the expected answer: the reveal panel of the writing
\* card, the solution panel of the visual quiz.
ExpectedAnswerShown ==
    \/ mode = "WRITING" /\ WritingCardShown /\ isRevealed
    \/ mode = "VISUAL" /\ VisualAreaShown /\ validationState = "correct"

\* The render offers an enabled advance button.
NextOffered ==
    /\ ~ isTransitioning
    /\ \/ mode = "WRITING" /\ WritingCardShown /\ isRevealed
       \/ mode = "VISUAL" /\ VisualAreaShown /\ validationState = "correct"

\* The render offers the visual quiz for another attempt: only the try-again
\* note, an editable input and the submit button.
RetryOffered ==
    /\ mode = "VISUAL"
    /\ VisualAreaShown
    /\ validationState = "incorrect"
    /\ ~ VisualInputDisabled

C29_OriginalStep == Submits => ExpectedAnswerShown' /\ (~ isTransitioning' => NextOffered')

\* C29 as stated: every check, correct or incorrect, in writing and in visual
\* mode, ends with the expected answer shown and the advance offered.
C29_AlwaysRevealed == [][C29_OriginalStep]_vars

C29_Step ==
    Submits =>
        /\ validationState' \in {"correct", "incorrect"}
        /\ mode = "WRITING" \/ validationState' = "correct" =>
              ExpectedAnswerShown' /\ (~ isTransitioning' => NextOffered')
        /\ mode = "VISUAL" /\ validationState' = "incorrect" =>
              ~ ExpectedAnswerShown' /\ ~ NextOffered' /\ RetryOffered'

\* C29: a check ends correct or incorrect.  In writing mode both outcomes
\* reveal the expected answer and offer the advance; in visual mode only a
\* correct answer does, an incorrect one leaves the quiz open for another
\* attempt with nothing revealed and no advance, by button or by Enter.
C29_RevealedUnlessVisualRetry ==
    /\ [][C29_Step]_vars
    /\ [] (NextOffered /\ ~ MicrotaskPending /\ RoomFor(2) =>
             ENABLED (WritingHandleNext("click") \/ VisualHandleNext("click")))
    /\ [] (RetryOffered => \A via \in Vias : ~ ENABLED VisualHandleNext(via))

\* A wrong answer in the visual quiz, with the quiz still open.
C29_Witness ==
    /\ RetryOffered
    /\ ~ isTransitioning
    /\ userInput # <<>>
    /\ ~ ExpectedAnswerShown

(***************************************************************************)
(* C31                                                                     *)
(***************************************************************************)
Accepted(k) == Trim(k) # <<>> /\ Len(Trim(k)) >= Len(AIza) /\ SubSeq(Trim(k), 1, Len(AIza)) = AIza

C31_Step ==
    \A k \in KeyInputs :
        handleSave(k) =>
            IF Accepted(k)
            THEN /\ localStorage' = [localStorage EXCEPT ![ApiKeyItem] = Item(Trim(k))]
                 /\ apiKey' = Trim(k)
                 /\ view' = "INPUT_WORDS"
                 /\ configError' = NoError
            ELSE /\ configError' # NoError
                 /\ localStorage' = localStorage
                 /\ apiKey = NoKey
                 /\ apiKey' = NoKey
                 /\ view' = "CONFIG"

\* C31: a credential entered at the prompt is accepted only if, trimmed, it
\* is non-empty and starts with the recognized prefix; a rejection shows an
\* error, persists nothing and leaves the credential unset and the view
\* CONFIG; an acceptance persists the trimmed key and the view becomes
\* INPUT_WORDS.
C31_CredentialPrompt ==
    /\ [][C31_Step]_vars
    /\ [](view = "CONFIG" => apiKey = NoKey)

\* A key typed between blanks has been accepted and persisted trimmed.
C31_Witness ==
    /\ InputScreenShown
    /\ envKey = NoKey
    /\ apiKey = AIza \o << 45 >>
    /\ localStorage[ApiKeyItem] = Item(AIza \o << 45 >>)

\* A key without the prefix has been rejected at the prompt.
C31_RejectedWitness ==
    /\ ConfigScreenShown
    /\ configError = "prefix"
    /\ apiKey = NoKey
    /\ ~ localStorage[ApiKeyItem].present

(***************************************************************************)
(* C32: the user leaves the practice session while requests are pending    *)
(***************************************************************************)
Unmounted == view # "PRACTICE"

\* While the screen is mounted it behaves as before and the Back button may
\* be clicked between two tasks; once it is unmounted no event reaches it,
\* but the generator still settles its requests and the suspended handlers
\* resume (no effect has a cleanup, no handler checks that the screen is
\* still mounted).
NextLeave ==
    \/ ~ Unmounted /\ Next
    \/ mountedRef /\ ~ MicrotaskPending /\ handleBackToInput
    \/ Unmounted /\ Continuation
    \/ Unmounted /\ \E r \in 1..MaxRequests : GeneratorStep(r)

SpecLeave == Init /\ [][NextLeave]_vars

C32_Step == Unmounted => wordStats' = wordStats /\ Len(requests') = Len(requests)

\* C32: once the user has left the practice session, a generation request
\* that settles afterwards neither changes any WordStats nor issues another
\* generation request.
C32_NoEffectsAfterLeaving == [][C32_Step]_vars

\* The reading screen was left during its initial load; the passage that
\* arrived afterwards was counted and a prefetch was issued.
C32_Witness ==
    /\ Unmounted
    /\ mode = "READING"
    /\ advances = 0
    /\ Len(requests) = 2
    /\ wordStats # startStats

(***************************************************************************)
(* C33, C34: the visual quiz while an advance is pending                   *)
(***************************************************************************)
Reward == 3

\* What the installed quiz item r has added to WordStats so far.
Awarded(r) == Reward * Count(credited, Shown(r, 0))

\* C33: in visual mode an installed quiz item never adds more than one
\* reward of 3 in total to WordStats, under any interleaving of submit,
\* advance and request settlements.
C33_OneRewardPerItem ==
    mode = "VISUAL" => \A n \in 1..Len(installs) : Awarded(installs[n]) <= Reward

\* The quiz shown during a pending advance has been answered correctly again.
C33_Witness ==
    /\ mode = "VISUAL"
    /\ isTransitioning
    /\ validationState = "correct"
    /\ Awarded(currentData) = 2 * Reward
    /\ wordStats["VISUAL"][CurrentPayload.targetWord] = 2 * Reward

C34_Step ==
    (mode = "VISUAL" /\ currentData' # currentData /\ currentData # NoRequest)
        => validationState' = "idle"

\* C34: in visual mode, whenever an advance installs a new quiz item as
\* current, the validation state is idle.
C34_IdleOnInstall == [][C34_Step]_vars

\* A new quiz item is shown as answered although nothing was submitted for it.
C34_Witness ==
    /\ mode = "VISUAL"
    /\ advances > 0
    /\ VisualAreaShown
    /\ error = NoError
    /\ validationState = "correct"
    /\ Awarded(currentData) = 0

(***************************************************************************)
(* C35                                                                     *)
(***************************************************************************)
Scans(key) == Count(credited, key)

\* Reading: every installed passage has been scanned exactly once.
ReadingScannedOnce ==
    mode = "READING" => \A n \in 1..Len(installs) : Scans(Shown(installs[n], 0)) = 1

\* Writing: no challenge has been scanned more than once.
WritingScannedOnce ==
    mode = "WRITING" => \A key \in DOMAIN credited : Scans(key) <= 1

\* C35: the text of each displayed item is scanned into WordStats at most
\* once: in reading mode exactly once when the passage is installed, in
\* writing mode at most once per challenge when the user reveals it, under
\* any interleaving of clicks, Enter presses and request settlements.
C35_ScannedOnce == ReadingScannedOnce /\ WritingScannedOnce

\* The last challenge of a batch has been revealed again while the advance
\* to the next batch is pending.
C35_Witness ==
    /\ mode = "WRITING"
    /\ isTransitioning
    /\ isRevealed
    /\ currentIndex = Len(CurrentPayload.challenges) - 1
    /\ Scans(Shown(currentData, currentIndex)) = 2

(***************************************************************************)
(* C36                                                                     *)
(***************************************************************************)
BatchCurrent == mode = "WRITING" /\ currentData # NoRequest

IndexInBatch == BatchCurrent => currentIndex < Len(CurrentPayload.challenges)

OnLastChallenge == currentIndex >= Len(CurrentPayload.challenges) - 1

\* An advance inside the batch moves to the next challenge and nothing else;
\* only an advance on the last challenge suspends on the prefetched batch,
\* and only the installation of a batch sets the index, to 0.
AdvanceStep ==
    /\ \A via \in Vias :
          WritingHandleNext(via) =>
              IF OnLastChallenge
              THEN /\ Len(waiters') = Len(waiters) + 1
                   /\ currentIndex' = currentIndex
              ELSE /\ currentIndex' = currentIndex + 1
                   /\ requests' = requests
                   /\ bufferPromiseRef' = bufferPromiseRef
                   /\ currentData' = currentData
                   /\ waiters' = waiters
    /\ (mode = "WRITING" /\ currentIndex' # currentIndex) =>
          \/ currentIndex' = currentIndex + 1 /\ currentData' = currentData
          \/ currentIndex' = 0 /\ Len(installs') = Len(installs) + 1

\* C36: in writing mode, whenever a batch is current, 0 <= currentIndex <
\* number of challenges of the batch, for every batch size the generator may
\* return; an advance that is not on the last challenge only increments the
\* index and issues no request, and only an advance on the last challenge
\* awaits the prefetched batch and resets the index to 0.
C36_IndexInBatch == [] IndexInBatch /\ [][AdvanceStep]_vars

C36_Advances == [][AdvanceStep]_vars

\* The generator answered with a batch of no challenges: it is current, the
\* index is 0 and no card is rendered.
C36_Witness ==
    /\ BatchCurrent
    /\ ~ isInitialLoading
    /\ error = NoError
    /\ Len(CurrentPayload.challenges) = 0
    /\ currentIndex = 0
    /\ ~ WritingCardShown

\* Within non-empty batches the index stays in range.
IndexInNonEmptyBatch ==
    (BatchCurrent /\ Len(CurrentPayload.challenges) > 0) => currentIndex < Len(CurrentPayload.challenges)

(***************************************************************************)
(* C37                                                                     *)
(***************************************************************************)
VocabularyItems == {KnownItem, LearningItem}

StatsItems == { StatsItem(m) : m \in Modes }

\* The stored text can be loaded: a vocabulary text that is present, a
\* WordStats text that is present and parses.
ValidStored(k) ==
    /\ localStorage[k].present
    /\ k \in StatsItems => localStorage[k].value.json # "invalid"

\* What the first write stores when nothing valid is stored under the key.
DefaultFor(k) ==
    CASE k = KnownItem ->
            IF localStorage[LegacyItem].present /\ localStorage[LegacyItem].value # <<>>
            THEN localStorage[LegacyItem].value ELSE <<>>
      [] k = LearningItem -> <<>>
      [] OTHER -> stringify(EmptyStats)

C37_Step ==
    /\ ~ isInitialized' => localStorage' = localStorage
    /\ StartupStep =>
          \A k \in VocabularyItems \cup StatsItems :
             IF ValidStored(k) THEN localStorage'[k] = localStorage[k]
             ELSE \/ localStorage'[k] = Item(DefaultFor(k))
                  \/ crashed' /\ localStorage'[k] = localStorage[k]

\* C37: no write to the store occurs until initialization has completed, and
\* the first write of each vocabulary and WordStats key stores the value that
\* was loaded, or the empty default only when nothing valid was stored: the
\* persisted texts are never overwritten with the in-memory defaults.
C37_LoadBeforeSave == [][C37_Step]_vars

\* The first write after a startup over the store of an earlier visit: the
\* stored totals are kept and the words of the previous version are saved
\* under the known-words key.
C37_Witness ==
    /\ isInitialized
    /\ ~ crashed
    /\ screens = <<>>
    /\ knownWords = << 1 >>
    /\ localStorage[LegacyItem] = Item(<< 1 >>)
    /\ localStorage[KnownItem] = Item(<< 1 >>)
    /\ localStorage[LearningItem] = Item(<<>>)
    /\ localStorage[StatsItem("READING")] = EarlierStore[StatsItem("READING")]
    /\ localStorage[StatsItem("WRITING")] = Item(stringify(EmptyStats))

(***************************************************************************)
(* C38                                                                     *)
(***************************************************************************)
C38_Step ==
    /\ (view # "PRACTICE" /\ view' = "PRACTICE") =>
          /\ view = "INPUT_WORDS"
          /\ handleStart
          /\ analyzedData' = analyze(knownWords, learningWords)
    /\ handleBackToInput => view' = "INPUT_WORDS" /\ analyzedData' = NullData
    /\ (view = "PRACTICE" /\ view' # "PRACTICE") => view' = "INPUT_WORDS"

\* C38: the AnalyzedVocabulary is non-null in every state whose view is
\* PRACTICE and null in every state whose view is INPUT_WORDS or CONFIG; it
\* is created by the start action, PRACTICE is entered only from INPUT_WORDS
\* by start, and the back action always returns to INPUT_WORDS.
C38_VocabularyWhilePractice ==
    /\ [] ((view = "PRACTICE") <=> (analyzedData # NullData))
    /\ [][C38_Step]_vars

\* A session was started and left again: the input screen is shown without
\* an analysis while the abandoned screen instance still exists.
C38_Witness ==
    /\ InputScreenShown
    /\ analyzedData = NullData
    /\ screens # <<>>
    /\ \A i \in 1..Len(screens) : ~ screens[i].mounted /\ screens[i].session # NullData

====
